---- MODULE Spec2Model ----
(***************************************************************************)
(* The persistence core of EchoDaily (src-tauri/src/db): the schema        *)
(* migrator, the entry store with its trigger-maintained full-text index,  *)
(* the AI-operation audit table and the import reconciler, over an         *)
(* embedded SQLite store.                                                  *)
(*                                                                         *)
(* A store is a record: the schema objects that exist, the rows of         *)
(* schema_migrations, entries, entries_fts (a bag: the FTS table has no    *)
(* key) and ai_operations.  Every SQL statement of the source is an        *)
(* operator from a store to a result and a store; every function of        *)
(* queries.rs / migrations.rs is the composition of its statements.        *)
(***************************************************************************)
EXTENDS Integers, Sequences, FiniteSets, Bags, TLC

VARIABLES
    db,       \* the committed store
    now,      \* chrono::Utc::now().timestamp_millis(), non-decreasing
    nextId,   \* the next Uuid::new_v4() of an entry
    nextOpId, \* the next Uuid::new_v4() of an AI operation
    pool,     \* "none" | "ready" | "failed": what setup() got from get_pool
    ret,      \* the result of the last completed call
    mig,      \* a statement-level migrations::run in progress
    calls     \* statement-level calls in flight (one per task)

vars == <<db, now, nextId, nextOpId, pool, ret, mig, calls>>

---------------------------------------------------------------------------
(* Bounds of the model *)

MaxClock == 1
MaxIds == 2
MaxOps == 1
MaxBundle == 1
MaxBundleOps == 0
MaxRuns == 2

---------------------------------------------------------------------------
(* Values *)

NULL == "NULL"

Dates == {"2026-01-31", "2026-02-01"}

Months == {"2026-01", "2026-02"}

\* Other strings that reach entry_date and month: a date that is not
\* zero-padded, a day that does not exist, a month that does not exist.
OtherDates == {"2026-1-31", "2026-2-1", "2026-02-02", "2026-02-30"}

OtherMonths == {"2026-13"}

\* The characters of the strings above ('-' sorts before the digits).
Chars ==
    [s \in Dates \cup Months \cup OtherDates \cup OtherMonths |->
        CASE s = "2026-01-31" -> <<2, 0, 2, 6, -1, 0, 1, -1, 3, 1>>
          [] s = "2026-02-01" -> <<2, 0, 2, 6, -1, 0, 2, -1, 0, 1>>
          [] s = "2026-01" -> <<2, 0, 2, 6, -1, 0, 1>>
          [] s = "2026-02" -> <<2, 0, 2, 6, -1, 0, 2>>
          [] s = "2026-1-31" -> <<2, 0, 2, 6, -1, 1, -1, 3, 1>>
          [] s = "2026-2-1" -> <<2, 0, 2, 6, -1, 2, -1, 1>>
          [] s = "2026-02-02" -> <<2, 0, 2, 6, -1, 0, 2, -1, 0, 2>>
          [] s = "2026-02-30" -> <<2, 0, 2, 6, -1, 0, 2, -1, 3, 0>>
          [] s = "2026-13" -> <<2, 0, 2, 6, -1, 1, 3>>]

\* p is a prefix of s
StartsWith(s, p) ==
    /\ Len(Chars[p]) <= Len(Chars[s])
    /\ \A i \in 1..Len(Chars[p]) : Chars[s][i] = Chars[p][i]

\* s < t in SQLite's BINARY collation
StrLess(s, t) ==
    \E i \in 1..(Len(Chars[s]) + 1) :
        /\ \A j \in 1..(i - 1) : j <= Len(Chars[t]) /\ Chars[s][j] = Chars[t][j]
        /\ i <= Len(Chars[t])
        /\ (i > Len(Chars[s]) \/ Chars[s][i] < Chars[t][i])

Contents == {"a", "b"}

EmptyDoc == "{}"

\* (mood, mood_emoji) as the commands receive them
MoodInputs == {<<NULL, NULL>>, <<"happy", ":)">>}

DiaryEntry(id, d, c, m, e, ca, ua) ==
    [id |-> id, entry_date |-> d, content_json |-> c, mood |-> m,
     mood_emoji |-> e, created_at |-> ca, updated_at |-> ua]

AIOperation(id, eid, t) ==
    [id |-> id, entry_id |-> eid, op_type |-> "polish", original_text |-> "t",
     result_text |-> "r", provider |-> "zhipu", model |-> "glm-4-flash",
     created_at |-> t]

EmptyStore ==
    [schema |-> {}, versions |-> {}, entries |-> {}, fts |-> EmptyBag, ai |-> {},
     settings |-> {}]

---------------------------------------------------------------------------
(* The search index and its triggers (MIGRATION_005) *)

Coalesce(m) == IF m = NULL THEN "" ELSE m

FtsRow(e) == [entry_id |-> e.id, content |-> e.content_json, mood |-> Coalesce(e.mood)]

\* DELETE FROM entries_fts WHERE entry_id = OLD.id
FtsDelete(fts, ids) ==
    [r \in {x \in DOMAIN fts : x.entry_id \notin ids} |-> fts[r]]

\* INSERT INTO entries_fts(entry_id, content, mood) VALUES (...), once per row
FtsInsert(fts, rows) == fts (+) SetToBag(rows)

\* CREATE TRIGGER entries_ai AFTER INSERT ON entries
TriggerAI(d, new) ==
    IF "entries_ai" \in d.schema
    THEN [d EXCEPT !.fts = FtsInsert(@, {FtsRow(e) : e \in new})]
    ELSE d

\* CREATE TRIGGER entries_ad AFTER DELETE ON entries
TriggerAD(d, old) ==
    IF "entries_ad" \in d.schema
    THEN [d EXCEPT !.fts = FtsDelete(@, {e.id : e \in old})]
    ELSE d

\* (entries_au without its DELETE)
TriggerAU_InsertOnly(d, old, new) ==
    IF "entries_au" \in d.schema
    THEN [d EXCEPT !.fts = FtsInsert(@, {FtsRow(e) : e \in new})]
    ELSE d

\* CREATE TRIGGER entries_au AFTER UPDATE ON entries
TriggerAU(d, old, new) ==
    IF "entries_au" \in d.schema
    THEN [d EXCEPT !.fts = FtsInsert(FtsDelete(@, {e.id : e \in old}),
                                     {FtsRow(e) : e \in new})]
    ELSE d

---------------------------------------------------------------------------
(* SQL statements on the entries and ai_operations tables *)

RowsOn(d, date) == {e \in d.entries : e.entry_date = date}

\* (the INSERT on a table whose entry_date is not UNIQUE)
SqlInsertEntry_NoUnique(d, e) ==
    IF \E x \in d.entries : x.id = e.id
    THEN [ok |-> FALSE, db |-> d]
    ELSE [ok |-> TRUE, db |-> TriggerAI([d EXCEPT !.entries = @ \cup {e}], {e})]

\* INSERT INTO entries (...) VALUES (...): id is the PRIMARY KEY, entry_date
\* is UNIQUE (MIGRATION_001); the AFTER INSERT trigger runs in the statement.
SqlInsertEntry(d, e) ==
    IF \E x \in d.entries : x.id = e.id \/ x.entry_date = e.entry_date
    THEN [ok |-> FALSE, db |-> d]
    ELSE [ok |-> TRUE, db |-> TriggerAI([d EXCEPT !.entries = @ \cup {e}], {e})]

\* An UPDATE of entries that turns the rows old into the rows new; the AFTER
\* UPDATE trigger runs in the statement.  RETURNING * gives the new rows.
SqlUpdateRows(d, old, new) ==
    [rows |-> new,
     db |-> TriggerAU([d EXCEPT !.entries = (@ \ old) \cup new], old, new)]

\* (the UPDATE setting created_at too)
SqlUpdateContent_Recreate(d, date, content, t) ==
    SqlUpdateRows(d, RowsOn(d, date),
        {[e EXCEPT !.content_json = content, !.updated_at = t, !.created_at = t] :
            e \in RowsOn(d, date)})

\* UPDATE entries SET content_json = ?, updated_at = ? WHERE entry_date = ?
\* RETURNING *
SqlUpdateContent(d, date, content, t) ==
    SqlUpdateRows(d, RowsOn(d, date),
        {[e EXCEPT !.content_json = content, !.updated_at = t] : e \in RowsOn(d, date)})

\* UPDATE entries SET mood = ?, mood_emoji = ?, updated_at = ? WHERE entry_date = ?
\* RETURNING *
\* (the mood update rewrites the content too)
SqlUpdateMood_ResetContent(d, date, m, t) ==
    SqlUpdateRows(d, RowsOn(d, date),
        {[e EXCEPT !.content_json = EmptyDoc, !.mood = m[1], !.mood_emoji = m[2],
                   !.updated_at = t] : e \in RowsOn(d, date)})

SqlUpdateMood(d, date, m, t) ==
    SqlUpdateRows(d, RowsOn(d, date),
        {[e EXCEPT !.mood = m[1], !.mood_emoji = m[2], !.updated_at = t] :
            e \in RowsOn(d, date)})

\* (the UPDATE taking the bundle's id and created_at too)
SqlUpdateImport_Verbatim(d, b) ==
    SqlUpdateRows(d, RowsOn(d, b.entry_date), {b})

\* UPDATE entries SET content_json = ?, mood = ?, mood_emoji = ?, updated_at = ?
\* WHERE entry_date = ?   (import_data, overwrite)
SqlUpdateImport(d, b) ==
    SqlUpdateRows(d, RowsOn(d, b.entry_date),
        {[e EXCEPT !.content_json = b.content_json, !.mood = b.mood,
                   !.mood_emoji = b.mood_emoji, !.updated_at = b.updated_at] :
            e \in RowsOn(d, b.entry_date)})

\* (the DELETE with foreign keys off: no cascade)
SqlDeleteEntry_NoCascade(d, date) ==
    LET old == RowsOn(d, date)
        d1 == [d EXCEPT !.entries = @ \ old]
    IN [rows_affected |-> Cardinality(old), db |-> TriggerAD(d1, old)]

\* DELETE FROM entries WHERE entry_date = ?: ai_operations.entry_id REFERENCES
\* entries(id) ON DELETE CASCADE (MIGRATION_002; sqlx turns foreign keys on),
\* and the AFTER DELETE trigger runs in the statement.
SqlDeleteEntry(d, date) ==
    LET old == RowsOn(d, date)
        ids == {e.id : e \in old}
        d1 == [d EXCEPT !.entries = @ \ old,
                        !.ai = {o \in @ : o.entry_id \notin ids}]
    IN [rows_affected |-> Cardinality(old), db |-> TriggerAD(d1, old)]

\* INSERT INTO ai_operations (...) VALUES (...): id is the PRIMARY KEY and
\* entry_id must be the id of an entry (FOREIGN KEY).
\* (foreign keys not enforced)
SqlInsertAIOperation_NoForeignKey(d, op) ==
    IF \E o \in d.ai : o.id = op.id
    THEN [ok |-> FALSE, db |-> d]
    ELSE [ok |-> TRUE, db |-> [d EXCEPT !.ai = @ \cup {op}]]

SqlInsertAIOperation(d, op) ==
    IF \/ \E o \in d.ai : o.id = op.id
       \/ ~ \E e \in d.entries : e.id = op.entry_id
    THEN [ok |-> FALSE, db |-> d]
    ELSE [ok |-> TRUE, db |-> [d EXCEPT !.ai = @ \cup {op}]]

\* DELETE FROM ai_operations WHERE entry_id = ?
SqlDeleteAIOperations(d, eid) ==
    LET old == {o \in d.ai : o.entry_id = eid}
    IN [rows_affected |-> Cardinality(old), db |-> [d EXCEPT !.ai = @ \ old]]

---------------------------------------------------------------------------
(* queries.rs *)

\* Result<T, AppError>: ok, the value (an Option or a Vec as a set or a
\* sequence), and the store the call leaves.
Ok(v, d) == [ok |-> TRUE, err |-> "", val |-> v, db |-> d]

Err(e, d) == [ok |-> FALSE, err |-> e, val |-> {}, db |-> d]

upsert_entry(d, entry_date, content_json, t, id) ==
    LET result == SqlUpdateContent(d, entry_date, content_json, t)
        entry == DiaryEntry(id, entry_date, content_json, NULL, NULL, t, t)
        ins == SqlInsertEntry(result.db, entry)
    IN IF result.rows # {} THEN Ok(result.rows, result.db)
       ELSE IF ins.ok THEN Ok({entry}, ins.db)
       ELSE Err("Database", ins.db)

get_entry(d, entry_date) == RowsOn(d, entry_date)

\* ORDER BY entry_date DESC
EntriesDesc(S) ==
    CHOOSE s \in [1..Cardinality(S) -> S] :
        /\ {s[i] : i \in 1..Cardinality(S)} = S
        /\ \A i, j \in 1..Cardinality(S) :
              i < j => ~ StrLess(s[i].entry_date, s[j].entry_date)

\* The character '%' of a LIKE pattern (no string of Chars has it).
Percent == 37

\* s LIKE p, on characters: '%' stands for any run of characters.
RECURSIVE SqlLike(_, _)
SqlLike(s, p) ==
    IF p = <<>> THEN s = <<>>
    ELSE IF Head(p) = Percent
    THEN \E k \in 0..Len(s) : SqlLike(SubSeq(s, k + 1, Len(s)), Tail(p))
    ELSE s # <<>> /\ Head(s) = Head(p) /\ SqlLike(Tail(s), Tail(p))

\* (the list in ascending order)
list_entries_Asc(d, month) ==
    LET desc == EntriesDesc({e \in d.entries :
                    SqlLike(Chars[e.entry_date], Chars[month] \o <<Percent>>)})
    IN [i \in 1..Len(desc) |-> desc[Len(desc) + 1 - i]]

\* SELECT * FROM entries WHERE entry_date LIKE ? ORDER BY entry_date DESC,
\* bound to format!("{}%", month)
list_entries(d, month) ==
    EntriesDesc({e \in d.entries :
        SqlLike(Chars[e.entry_date], Chars[month] \o <<Percent>>)})

delete_entry(d, entry_date) ==
    LET result == SqlDeleteEntry(d, entry_date)
    IN Ok(result.rows_affected > 0, result.db)

create_ai_operation(d, entry_id, t, id) ==
    LET operation == AIOperation(id, entry_id, t)
        ins == SqlInsertAIOperation(d, operation)
    IN IF ins.ok THEN Ok({operation}, ins.db) ELSE Err("Database", ins.db)

delete_ai_operations_for_entry(d, entry_id) ==
    LET result == SqlDeleteAIOperations(d, entry_id)
    IN Ok(result.rows_affected, result.db)

upsert_entry_mood(d, entry_date, m, t, id) ==
    LET result == SqlUpdateMood(d, entry_date, m, t)
        entry == DiaryEntry(id, entry_date, EmptyDoc, m[1], m[2], t, t)
        ins == SqlInsertEntry(result.db, entry)
    IN IF result.rows # {} THEN Ok(result.rows, result.db)
       ELSE IF ins.ok THEN Ok({entry}, ins.db)
       ELSE Err("Database", ins.db)

\* The rows the FTS table matches against a query: a query is a term, and a
\* row matches when the term is its content or its mood.
FtsMatch(row, query) == row.content = query \/ row.mood = query

\* The words the FTS5 tokenizer finds in a text of the model: each text is
\* one word, but '' and "{}" hold none.
Tokens(text) == IF text \in {"", EmptyDoc} THEN 0 ELSE 1

\* The BM25 relevance of an index row for a one-term query, as FTS5 computes
\* it, up to the positive factor IDF that all rows of one query share:
\*   tf * (k1 + 1) / (tf + k1 * (1 - b + b * D / avgdl)),  k1 = 1.2, b = 0.75,
\* tf the occurrences of the term in the row, D the words of the row, avgdl
\* the average of D over the index; kept as a fraction num / den.
Bm25Score(row, fts, query) ==
    LET N == BagCardinality(fts)
        T == BagCardinality([r \in {x \in DOMAIN fts : Tokens(x.content) = 1} |-> fts[r]])
             + BagCardinality([r \in {x \in DOMAIN fts : Tokens(x.mood) = 1} |-> fts[r]])
        D == Tokens(row.content) + Tokens(row.mood)
        tf == (IF row.content = query THEN 1 ELSE 0)
              + (IF row.mood = query THEN 1 ELSE 0)
    IN [num |-> 22 * tf * T, den |-> 10 * tf * T + 3 * T + 9 * D * N]

\* bm25(entries_fts): FTS5 returns the score multiplied by -1, so that a
\* better match has a numerically smaller value.
bm25(row, fts, query) ==
    [Bm25Score(row, fts, query) EXCEPT !.num = 0 - @]

\* a < b on fractions with denominators >= 0
FracLess(a, b) == a.num * b.den < b.num * a.den

\* The rows of the join: SELECT e.* FROM entries e INNER JOIN entries_fts fts
\* ON e.id = fts.entry_id WHERE entries_fts MATCH ?   (one result per
\* matching index row: k numbers the copies of a row)
SearchRows(d, query) ==
    {x \in [e : d.entries,
            fts : {r \in DOMAIN d.fts : FtsMatch(r, query)},
            k : 1..BagCardinality(d.fts)] :
        x.fts.entry_id = x.e.id /\ x.k <= CopiesIn(x.fts, d.fts)}

\* search_entries: the rows of the join,
\* ORDER BY bm25(entries_fts) DESC, e.entry_date DESC
search_entries(d, query) ==
    LET rows == SearchRows(d, query)
        n == Cardinality(rows)
        s == CHOOSE f \in [1..n -> rows] :
                /\ {f[i] : i \in 1..n} = rows
                /\ \A i, j \in 1..n : i < j =>
                      /\ ~ FracLess(bm25(f[i].fts, d.fts, query),
                                    bm25(f[j].fts, d.fts, query))
                      /\ ~ FracLess(bm25(f[j].fts, d.fts, query),
                                    bm25(f[i].fts, d.fts, query))
                            => ~ StrLess(f[i].e.entry_date, f[j].e.entry_date)
    IN [i \in 1..n |-> s[i].e]

\* The entry loop of import_data, from the k-th entry of the bundle on; the
\* first statement that fails ends the call (?), with no transaction around.
RECURSIVE ImportEntries(_, _, _, _)
ImportEntries(d, entries, overwrite, imported_count) ==
    IF entries = <<>> THEN Ok(imported_count, d)
    ELSE LET entry == Head(entries)
             existing == {e.id : e \in RowsOn(d, entry.entry_date)}
             ins == SqlInsertEntry(d, entry)
         IN IF existing = {}
            THEN IF ins.ok
                 THEN ImportEntries(ins.db, Tail(entries), overwrite, imported_count + 1)
                 ELSE Err("Database", ins.db)
            ELSE IF overwrite
            THEN ImportEntries(SqlUpdateImport(d, entry).db, Tail(entries), overwrite,
                               imported_count + 1)
            ELSE ImportEntries(d, Tail(entries), overwrite, imported_count)

\* (the loop replacing a record whose id is already present)
RECURSIVE ImportAIOperations_Replace(_, _, _)
ImportAIOperations_Replace(d, ops, imported_count) ==
    IF ops = <<>> THEN Ok(imported_count, d)
    ELSE LET op == Head(ops)
             ins == SqlInsertAIOperation([d EXCEPT !.ai = {x \in @ : x.id # op.id}], op)
         IN IF ins.ok THEN ImportAIOperations_Replace(ins.db, Tail(ops), imported_count)
            ELSE Err("Database", d)

\* The AI operation loop of import_data.
RECURSIVE ImportAIOperations(_, _, _)
ImportAIOperations(d, ops, imported_count) ==
    IF ops = <<>> THEN Ok(imported_count, d)
    ELSE LET op == Head(ops)
             existing == {o.id : o \in {x \in d.ai : x.id = op.id}}
             ins == SqlInsertAIOperation(d, op)
         IN IF existing # {} THEN ImportAIOperations(d, Tail(ops), imported_count)
            ELSE IF ins.ok THEN ImportAIOperations(ins.db, Tail(ops), imported_count)
            ELSE Err("Database", ins.db)

\* (the AI operations of the bundle are never imported)
import_data_EntriesOnly(d, data, options) ==
    ImportEntries(d, data.entries, options.overwrite, 0)

import_data(d, data, options) ==
    LET es == ImportEntries(d, data.entries, options.overwrite, 0)
    IN IF ~ es.ok THEN es
       ELSE IF options.include_ai_operations
       THEN ImportAIOperations(es.db, data.ai_operations, es.val)
       ELSE es

---------------------------------------------------------------------------
(* migrations.rs *)

LatestVersion == 5

\* The statements migrations::run sends on its transaction, in order; step is
\* the version whose `if current_version < step` guards the statement (0: not
\* guarded).
Program ==
    << [stmt |-> "create_schema_migrations", step |-> 0],
       [stmt |-> "select_max_version", step |-> 0],
       [stmt |-> "create_entries", step |-> 1],
       [stmt |-> "create_idx_entries", step |-> 1],
       [stmt |-> "create_schema_migrations", step |-> 1],
       [stmt |-> "record_version", step |-> 1],
       [stmt |-> "drop_ai_operations", step |-> 2],
       [stmt |-> "create_ai_operations", step |-> 2],
       [stmt |-> "create_idx_ai_operations", step |-> 2],
       [stmt |-> "record_version", step |-> 2],
       [stmt |-> "create_app_settings", step |-> 3],
       [stmt |-> "create_idx_app_settings", step |-> 3],
       [stmt |-> "record_version", step |-> 3],
       [stmt |-> "add_mood", step |-> 4],
       [stmt |-> "add_mood_emoji", step |-> 4],
       [stmt |-> "create_idx_entries_mood", step |-> 4],
       [stmt |-> "record_version", step |-> 4],
       [stmt |-> "create_entries_fts", step |-> 5],
       [stmt |-> "populate_entries_fts", step |-> 5],
       [stmt |-> "create_entries_ai", step |-> 5],
       [stmt |-> "create_entries_ad", step |-> 5],
       [stmt |-> "create_entries_au", step |-> 5],
       [stmt |-> "record_version", step |-> 5],
       [stmt |-> "commit", step |-> 0] >>

\* The schema objects the statements of step v create.
StepObjects(v) ==
    CASE v = 1 -> {"entries", "idx_entries"}
      [] v = 2 -> {"ai_operations", "idx_ai_operations"}
      [] v = 3 -> {"app_settings", "idx_app_settings"}
      [] v = 4 -> {"mood", "mood_emoji", "idx_entries_mood"}
      [] v = 5 -> {"entries_fts", "entries_ai", "entries_ad", "entries_au"}

\* (MIN for MAX)
CurrentVersion_Min(d) ==
    IF d.versions = {} THEN 0
    ELSE CHOOSE v \in {r.version : r \in d.versions} :
            \A r \in d.versions : r.version >= v

\* SELECT COALESCE(MAX(version), 0) FROM schema_migrations
CurrentVersion(d) ==
    IF d.versions = {} THEN 0
    ELSE CHOOSE v \in {r.version : r \in d.versions} :
            \A r \in d.versions : r.version <= v

Create(d, objs) == [ok |-> TRUE, db |-> [d EXCEPT !.schema = @ \cup objs]]

Fail(d) == [ok |-> FALSE, db |-> d]

\* One statement of the program on the store d (the transaction's view) at
\* time t, as SQLite executes it.
Exec(s, d, t) ==
    CASE s.stmt = "create_schema_migrations" -> Create(d, {"schema_migrations"})
      [] s.stmt = "select_max_version" ->
            IF "schema_migrations" \in d.schema THEN Create(d, {}) ELSE Fail(d)
      [] s.stmt = "create_entries" -> Create(d, {"entries"})
      [] s.stmt = "create_idx_entries" ->
            IF "entries" \in d.schema THEN Create(d, {"idx_entries"}) ELSE Fail(d)
      [] s.stmt = "record_version" ->
            \* INSERT INTO schema_migrations (version, applied_at): version is
            \* the PRIMARY KEY
            IF \/ "schema_migrations" \notin d.schema
               \/ \E r \in d.versions : r.version = s.step
            THEN Fail(d)
            ELSE [ok |-> TRUE,
                  db |-> [d EXCEPT !.versions =
                             @ \cup {[version |-> s.step, applied_at |-> t]}]]
      [] s.stmt = "drop_ai_operations" ->
            \* DROP TABLE IF EXISTS ai_operations: the rows and the indexes go too
            [ok |-> TRUE,
             db |-> [d EXCEPT !.schema = @ \ {"ai_operations", "idx_ai_operations"},
                              !.ai = {}]]
      [] s.stmt = "create_ai_operations" -> Create(d, {"ai_operations"})
      [] s.stmt = "create_idx_ai_operations" ->
            IF "ai_operations" \in d.schema
            THEN Create(d, {"idx_ai_operations"}) ELSE Fail(d)
      [] s.stmt = "create_app_settings" -> Create(d, {"app_settings"})
      [] s.stmt = "create_idx_app_settings" ->
            IF "app_settings" \in d.schema
            THEN Create(d, {"idx_app_settings"}) ELSE Fail(d)
      [] s.stmt = "add_mood" ->
            \* ALTER TABLE entries ADD COLUMN mood: "duplicate column name"
            \* when the column is there
            IF "entries" \in d.schema /\ "mood" \notin d.schema
            THEN Create(d, {"mood"}) ELSE Fail(d)
      [] s.stmt = "add_mood_emoji" ->
            IF "entries" \in d.schema /\ "mood_emoji" \notin d.schema
            THEN Create(d, {"mood_emoji"}) ELSE Fail(d)
      [] s.stmt = "create_idx_entries_mood" ->
            IF "entries" \in d.schema /\ "mood" \in d.schema
            THEN Create(d, {"idx_entries_mood"}) ELSE Fail(d)
      [] s.stmt = "create_entries_fts" -> Create(d, {"entries_fts"})
      [] s.stmt = "populate_entries_fts" ->
            \* INSERT INTO entries_fts SELECT id, content_json, COALESCE(mood, '')
            \* FROM entries
            IF {"entries", "mood", "entries_fts"} \subseteq d.schema
            THEN [ok |-> TRUE,
                  db |-> [d EXCEPT !.fts = FtsInsert(@, {FtsRow(e) : e \in d.entries})]]
            ELSE Fail(d)
      [] s.stmt = "create_entries_ai" ->
            IF "entries" \in d.schema THEN Create(d, {"entries_ai"}) ELSE Fail(d)
      [] s.stmt = "create_entries_ad" ->
            IF "entries" \in d.schema THEN Create(d, {"entries_ad"}) ELSE Fail(d)
      [] s.stmt = "create_entries_au" ->
            IF "entries" \in d.schema THEN Create(d, {"entries_au"}) ELSE Fail(d)
      [] s.stmt = "commit" -> Create(d, {})

\* (`<=` for `<`)
Guarded_OffByOne(s, current_version) == s.step = 0 \/ current_version <= s.step

\* (only the step after the current version)
Guarded_OnlyNext(s, current_version) == s.step = 0 \/ current_version + 1 = s.step

\* `if current_version < step`
Guarded(s, current_version) == s.step = 0 \/ current_version < s.step

\* The statements from the i-th on, on the transaction's store tx; failAt is
\* the statement the storage engine fails on its own (I/O error, disk full),
\* 0 for none.  The result's db is the transaction's store, trace the guarded
\* whose statements this run executed.
RECURSIVE RunFrom(_, _, _, _, _, _)
RunFrom(tx, i, current_version, t, failAt, trace) ==
    IF i > Len(Program) THEN [ok |-> TRUE, db |-> tx, trace |-> trace]
    ELSE IF ~ Guarded(Program[i], current_version)
    THEN RunFrom(tx, i + 1, current_version, t, failAt, trace)
    ELSE IF i = failAt \/ ~ Exec(Program[i], tx, t).ok
    THEN [ok |-> FALSE, db |-> tx, trace |-> trace]
    ELSE RunFrom(Exec(Program[i], tx, t).db, i + 1,
                 IF Program[i].stmt = "select_max_version"
                 THEN CurrentVersion(tx) ELSE current_version,
                 t, failAt,
                 IF Program[i].step > 0
                 THEN Append(trace, Program[i]) ELSE trace)

\* (no transaction: what the statements did stays)
Rollback_None(d, tx) == tx

\* `?` on a statement of the run drops the sqlx Transaction, which rolls
\* back: the committed store d stays, the transaction's store tx is lost.
Rollback(d, tx) == d

\* migrations::run: one transaction from pool.begin() to commit().
migrations_run(d, t, failAt) ==
    LET r == RunFrom(d, 1, 0, t, failAt, <<>>)
    IN IF r.ok THEN [ok |-> TRUE, db |-> r.db, trace |-> r.trace]
       ELSE [ok |-> FALSE, db |-> Rollback(d, r.db), trace |-> r.trace]

\* (the pool is handed out whatever the migration run returned)
get_pool_Unchecked(d, t, failAt) == Ok("pool", migrations_run(d, t, failAt).db)

\* db::get_pool: connect, migrate, hand the pool out.
get_pool(d, t, failAt) ==
    LET m == migrations_run(d, t, failAt)
    IN IF m.ok THEN Ok("pool", m.db) ELSE Err("Database", m.db)

---------------------------------------------------------------------------
(* lib.rs: the commands *)

\* ai_polish: the entry is looked up first; the key chain and the provider
\* are outside the store (ext is what they answer).
ai_polish(d, entry_date, t, id, ext) ==
    IF get_entry(d, entry_date) = {} THEN Err("EntryNotFound", d)
    ELSE IF ext = "no_api_key" \/ ext = "provider_error" THEN Err("AI", d)
    ELSE create_ai_operation(d, (CHOOSE e \in get_entry(d, entry_date) : TRUE).id, t, id)

---------------------------------------------------------------------------
(* The stores the program starts on, and the bundles it is given *)

\* The store a build whose latest version was c left: the statements of the
\* steps 1..c, applied at time 0 (c = 0: the file was just created).
RECURSIVE BuiltBy(_, _, _)
BuiltBy(d, i, c) ==
    IF i > Len(Program) THEN d
    ELSE IF c = 0 \/ Program[i].step > c THEN BuiltBy(d, i + 1, c)
    ELSE BuiltBy(Exec(Program[i], d, 0).db, i + 1, c)

\* An entry written before this run of the program (mood columns exist from
\* version 4 on).
LegacyEntry(c) ==
    IF c < 4 THEN DiaryEntry(1, "2026-01-31", "a", NULL, NULL, 0, 0)
    ELSE DiaryEntry(1, "2026-01-31", "a", "happy", ":)", 0, 0)

InitStores ==
    {BuiltBy(EmptyStore, 1, c) : c \in 0..LatestVersion}
    \cup {SqlInsertEntry(BuiltBy(EmptyStore, 1, c), LegacyEntry(c)).db :
            c \in 1..LatestVersion}

SeqsUpTo(S, n) == UNION {[1..k -> S] : k \in 0..n}

BundleIds == {1, 9}

BundleTimes == {<<0, 0>>}

\* Entries of a bundle: updated_at >= created_at in each.
BundleEntries ==
    {DiaryEntry(i, d, "b", "happy", ":)", ts[1], ts[2]) :
        i \in BundleIds, d \in Dates, ts \in BundleTimes}

BundleOperations == {AIOperation(9, e, 0) : e \in BundleIds}

Bundles ==
    [entries : SeqsUpTo(BundleEntries, MaxBundle),
     ai_operations : SeqsUpTo(BundleOperations, MaxBundleOps)]

ImportOptions == [overwrite : BOOLEAN, include_ai_operations : BOOLEAN]

NoCall == [op |-> "none", arg |-> "", ok |-> TRUE, val |-> {}]

NoMig ==
    [pc |-> 0, current_version |-> 0, tx |-> EmptyStore, trace |-> <<>>,
     before |-> EmptyStore, last |-> "none", lastTrace |-> <<>>, runs |-> 0]

---------------------------------------------------------------------------
(* The program, one call at a time *)

Init ==
    /\ db \in InitStores
    /\ now = 0
    /\ nextId = 1 + Cardinality(db.entries)
    /\ nextOpId = 1
    /\ pool = "none"
    /\ ret = NoCall
    /\ mig = NoMig
    /\ calls = <<>>

Tick ==
    /\ pool = "ready"
    /\ now < MaxClock
    /\ now' = now + 1
    /\ UNCHANGED <<db, nextId, nextOpId, pool, ret, mig, calls>>

\* lib.rs run(): setup blocks on get_pool and manages the pool it returns.
Setup ==
    /\ pool = "none"
    /\ \E failAt \in 0..Len(Program) :
          LET r == get_pool(db, now, failAt)
          IN /\ db' = r.db
             /\ pool' = IF r.ok THEN "ready" ELSE "failed"
             /\ ret' = [op |-> "get_pool", arg |-> "", ok |-> r.ok, val |-> {}]
    /\ UNCHANGED <<now, nextId, nextOpId, mig, calls>>

Return(op, arg, r) ==
    /\ db' = r.db
    /\ ret' = [op |-> op, arg |-> arg, ok |-> r.ok, val |-> r.val]

\* Uuid::new_v4() is drawn on the insert path only.
Fresh(date) == IF RowsOn(db, date) = {} THEN nextId + 1 ELSE nextId

Cmd_upsert_entry ==
    /\ pool = "ready"
    /\ \E date \in Dates, content \in Contents :
          /\ Fresh(date) <= MaxIds + 1
          /\ Return("upsert_entry", date, upsert_entry(db, date, content, now, nextId))
          /\ nextId' = Fresh(date)
    /\ UNCHANGED <<now, nextOpId, pool, mig, calls>>

Cmd_upsert_entry_mood ==
    /\ pool = "ready"
    /\ \E date \in Dates, m \in MoodInputs :
          /\ Fresh(date) <= MaxIds + 1
          /\ Return("upsert_entry_mood", date, upsert_entry_mood(db, date, m, now, nextId))
          /\ nextId' = Fresh(date)
    /\ UNCHANGED <<now, nextOpId, pool, mig, calls>>

Cmd_delete_entry ==
    /\ pool = "ready"
    /\ \E date \in Dates : Return("delete_entry", date, delete_entry(db, date))
    /\ UNCHANGED <<now, nextId, nextOpId, pool, mig, calls>>

Cmd_ai_polish ==
    /\ pool = "ready"
    /\ nextOpId <= MaxOps
    /\ \E date \in Dates, ext \in {"ok", "no_api_key", "provider_error"} :
          LET r == ai_polish(db, date, now, nextOpId, ext)
          IN /\ Return("ai_polish", date, r)
             /\ nextOpId' = IF r.ok THEN nextOpId + 1 ELSE nextOpId
    /\ UNCHANGED <<now, nextId, pool, mig, calls>>

Cmd_import_data ==
    /\ pool = "ready"
    /\ \E data \in Bundles, options \in ImportOptions :
          Return("import_data", "", import_data(db, data, options))
    /\ UNCHANGED <<now, nextId, nextOpId, pool, mig, calls>>

Next ==
    \/ Tick
    \/ Setup
    \/ Cmd_upsert_entry
    \/ Cmd_upsert_entry_mood
    \/ Cmd_delete_entry
    \/ Cmd_ai_polish
    \/ Cmd_import_data

Spec == Init /\ [][Next]_vars

---------------------------------------------------------------------------
(* Claims on the program run one call at a time (Spec) *)

Queries == Contents \cup {EmptyDoc, "happy", "", NULL}

\* Tick is the only step of Spec that is no call.
IsCall(op) == ret'.op = op /\ now' = now

\* C1: after migration, every stored entry has exactly one search-index row,
\* with the entry's content_json and its mood ('' for an absent mood), no
\* index row carries the id of an entry that is not stored, and so search
\* returns exactly the stored entries whose current content or mood matches.
C1_IndexMirrorsEntries ==
    pool = "ready" =>
        /\ \A e \in db.entries :
              /\ CopiesIn(FtsRow(e), db.fts) = 1
              /\ \A r \in DOMAIN db.fts : r.entry_id = e.id => r = FtsRow(e)
        /\ \A r \in DOMAIN db.fts : \E e \in db.entries : e.id = r.entry_id
        /\ \A q \in Queries :
              {search_entries(db, q)[i] : i \in DOMAIN search_entries(db, q)} =
                 {e \in db.entries : e.content_json = q \/ Coalesce(e.mood) = q}

\* An entry was overwritten by an import and another deleted since migration.
C1_Witness ==
    /\ pool = "ready"
    /\ ret.op = "delete_entry" /\ ret.val = TRUE
    /\ \E e \in db.entries : e.content_json = "b" /\ e.mood = "happy" /\ e.created_at = 1

\* C8: upsert_entry on a date keeps the entry's id and created_at (and its
\* mood fields and every other entry) and changes only content_json and
\* updated_at; the Entry it returns is the row get_entry then returns.  No
\* call other than a delete changes the id or created_at of a stored entry.
C8_Step ==
    /\ \A e \in db.entries : \A f \in RowsOn(db', e.entry_date) :
          f.id = e.id /\ f.created_at = e.created_at
    /\ \A d \in Dates :
          (IsCall("upsert_entry") /\ ret'.arg = d /\ ret'.ok) =>
             /\ ret'.val = get_entry(db', d)
             /\ Cardinality(ret'.val) = 1
             /\ \A f \in ret'.val : f.updated_at = now
             /\ \A e \in RowsOn(db, d) : \A f \in ret'.val :
                   /\ f.mood = e.mood
                   /\ f.mood_emoji = e.mood_emoji
             /\ \A d2 \in Dates \ {d} : RowsOn(db', d2) = RowsOn(db, d2)

C8_UpsertKeepsIdentity == [][C8_Step]_vars

\* A second upsert_entry to a date that has a mood, at a later time.
C8_Witness ==
    /\ ret.op = "upsert_entry" /\ ret.ok
    /\ \E e \in ret.val :
          e.updated_at > e.created_at /\ e.mood # NULL /\ e.content_json = "a"

\* C9: every stored entry has updated_at >= created_at.
C9_UpdatedNotBeforeCreated ==
    \A e \in db.entries : e.updated_at >= e.created_at

\* C10: delete_entry returns true exactly when the date had an entry; then
\* the entry, the AI operations of its id and the index rows of its id are
\* gone and all else is as it was; when it returns false nothing changed.
C10_Step ==
    \A d \in Dates :
       (IsCall("delete_entry") /\ ret'.arg = d) =>
          LET ids == {e.id : e \in RowsOn(db, d)}
          IN /\ ret'.ok
             /\ ret'.val = (RowsOn(db, d) # {})
             /\ ret'.val =>
                   /\ db'.entries = {e \in db.entries : e.entry_date # d}
                   /\ db'.ai = {o \in db.ai : o.entry_id \notin ids}
                   /\ \A r \in DOMAIN db.fts \cup DOMAIN db'.fts :
                         CopiesIn(r, db'.fts) =
                            IF r.entry_id \in ids THEN 0 ELSE CopiesIn(r, db.fts)
                   /\ db'.schema = db.schema /\ db'.versions = db.versions
             /\ ~ ret'.val => db' = db

C10_DeleteCascades == [][C10_Step]_vars

\* A delete that took the entry's AI operation with it and left the other
\* date's entry.
C10_Witness ==
    /\ ret.op = "delete_entry" /\ ret.val = TRUE
    /\ nextOpId > 1 /\ db.ai = {}
    /\ db.entries # {}

---------------------------------------------------------------------------
(* get_pool statement by statement (SpecMig): the program is started, runs  *)
(* migrations::run on the store it finds, and is started again.             *)

InitMig ==
    /\ db \in InitStores
    /\ now = 0
    /\ nextId = 1 + Cardinality(db.entries)
    /\ nextOpId = 1
    /\ pool = "none"
    /\ ret = NoCall
    /\ mig = NoMig
    /\ calls = <<>>

MigTick ==
    /\ now < MaxClock
    /\ now' = now + 1
    /\ UNCHANGED <<db, nextId, nextOpId, pool, ret, mig, calls>>

\* The first statement from the i-th on that the run executes.
NextPc(i, current_version) ==
    CHOOSE j \in i..Len(Program) :
        /\ Guarded(Program[j], current_version)
        /\ \A k \in i..(j - 1) : ~ Guarded(Program[k], current_version)

\* pool.begin()
MigBegin ==
    /\ mig.pc = 0
    /\ mig.runs < MaxRuns
    /\ mig' = [mig EXCEPT !.pc = 1, !.current_version = 0, !.tx = db,
                          !.trace = <<>>, !.before = db, !.runs = @ + 1]
    /\ pool' = "none"
    /\ UNCHANGED <<db, now, nextId, nextOpId, ret, calls>>

\* A statement of the run succeeds; the last one is commit().
MigStep ==
    /\ mig.pc > 0
    /\ LET s == Program[mig.pc]
           r == Exec(s, mig.tx, now)
           trace == IF s.step > 0 THEN Append(mig.trace, s) ELSE mig.trace
           current_version == IF s.stmt = "select_max_version"
                              THEN CurrentVersion(r.db) ELSE mig.current_version
       IN /\ r.ok
          /\ IF s.stmt = "commit"
             THEN /\ db' = r.db
                  /\ mig' = [mig EXCEPT !.pc = 0, !.tx = EmptyStore, !.trace = <<>>,
                                        !.last = "ok", !.lastTrace = trace]
                  /\ pool' = "ready"
             ELSE /\ mig' = [mig EXCEPT !.pc = NextPc(mig.pc + 1, current_version),
                                        !.current_version = current_version,
                                        !.tx = r.db, !.trace = trace]
                  /\ UNCHANGED <<db, pool>>
    /\ UNCHANGED <<now, nextId, nextOpId, ret, calls>>

\* A statement of the run fails, by its own conditions or by a fault of the
\* storage engine: run returns the error, get_pool returns it, setup fails.
MigFail ==
    /\ mig.pc > 0
    /\ db' = Rollback(db, mig.tx)
    /\ mig' = [mig EXCEPT !.pc = 0, !.tx = EmptyStore, !.trace = <<>>,
                          !.last = "err", !.lastTrace = mig.trace]
    /\ pool' = "failed"
    /\ UNCHANGED <<now, nextId, nextOpId, ret, calls>>

NextMig == MigTick \/ MigBegin \/ MigStep \/ MigFail

SpecMig == InitMig /\ [][NextMig]_vars

---------------------------------------------------------------------------
(* Claims on the migrator (SpecMig) *)

Versions(d) == {r.version : r \in d.versions}

\* The highest version a store records, 0 when it records none.
Highest(d) ==
    CHOOSE c \in 0..LatestVersion :
        /\ c = 0 => Versions(d) = {}
        /\ c > 0 => c \in Versions(d)
        /\ \A v \in Versions(d) : v <= c

Finished(result) == mig.pc = 0 /\ mig.last = result

AfterStep(c) == SelectSeq(Program, LAMBDA s : s.step > c)

\* C4: a run on a store that is at the latest version executes only the
\* bootstrap, the version query and the commit, none of which fails by
\* itself, changes nothing in the transaction and, once it has returned Ok,
\* has left the store (schema, versions with applied_at, data) as it was.
C4_RerunIsNoOp ==
    Highest(mig.before) = LatestVersion =>
        /\ mig.pc > 0 =>
              /\ Program[mig.pc].step = 0
              /\ Exec(Program[mig.pc], mig.tx, now).ok
              /\ mig.tx = mig.before
              /\ mig.trace = <<>>
        /\ Finished("ok") => db = mig.before /\ mig.lastTrace = <<>>

\* The program was started twice on a store with an entry; the second run
\* found the latest version and returned Ok.
C4_Witness ==
    /\ Finished("ok") /\ mig.runs = 2
    /\ Highest(mig.before) = LatestVersion
    /\ mig.before.entries # {}
    /\ now > 0

\* C5: a run that returns Ok on a store whose highest recorded version is c
\* has executed exactly the statements of the steps c+1..5, in the order of
\* the program, each once, and recorded exactly their versions; no step ever
\* removes or changes a recorded version.
C5_Step ==
    /\ \A r \in db.versions : r \in db'.versions
    /\ Highest(db') >= Highest(db)
    /\ (mig'.pc = 0 /\ mig'.last = "ok" /\ mig.pc > 0) =>
          LET c == Highest(mig'.before)
          IN /\ mig'.lastTrace = AfterStep(c)
             /\ Versions(db') = Versions(mig'.before) \cup ((c + 1)..LatestVersion)
             /\ Versions(mig'.before) = 1..c

C5_ForwardOnly == [][C5_Step]_vars

\* A run from version 3 returned Ok.
C5_Witness ==
    /\ Finished("ok")
    /\ Highest(mig.before) = 3
    /\ Len(mig.lastTrace) > 0

\* C6: when a statement of the run fails the run returns the error, setup
\* gets no pool and the committed store is the one before the run; in every
\* committed store a version is recorded exactly when the schema objects of
\* its step exist, and none of them exists otherwise.
C6_FailedRunLeavesNoTrace ==
    /\ \A v \in 1..LatestVersion :
          /\ v \in Versions(db) <=> StepObjects(v) \subseteq db.schema
          /\ v \notin Versions(db) => StepObjects(v) \cap db.schema = {}
    /\ Finished("err") => pool = "failed" /\ db = mig.before
    /\ pool = "ready" => mig.last = "ok" /\ Highest(db) = LatestVersion

\* A run failed after it had recorded a version in its transaction.
C6_Witness ==
    /\ Finished("err")
    /\ \E i \in 1..Len(mig.lastTrace) : mig.lastTrace[i].stmt = "record_version"
    /\ Highest(db) = 0

\* C7 as claimed: after a failed run, the versions the run had recorded
\* before the failing statement are recorded in the store.
C7_StepsBelowKRemain ==
    Finished("err") =>
        \A i \in 1..Len(mig.lastTrace) :
            mig.lastTrace[i].stmt = "record_version" =>
                mig.lastTrace[i].step \in Versions(db)

\* C7 as amended: the steps of a run are committed together, in the one
\* transaction of the run: a failed run leaves the store as it was before
\* the run, and every run starts at the step after the highest version the
\* committed store records.
C7_OneTransactionPerRun ==
    /\ Finished("err") => db = mig.before
    /\ mig.pc > 2 =>
          /\ mig.current_version = Highest(db)
          /\ \A i \in 1..Len(mig.trace) : mig.trace[i].step > Highest(db)
          /\ mig.trace # <<>> => mig.trace[1].step = Highest(db) + 1

\* A run executes step 1 again after a run that had recorded it failed.
C7_Witness ==
    /\ mig.last = "err"
    /\ \E i \in 1..Len(mig.lastTrace) :
          mig.lastTrace[i].stmt = "record_version" /\ mig.lastTrace[i].step = 2
    /\ mig.pc > 2 /\ mig.trace # <<>> /\ mig.trace[1].step = 1

---------------------------------------------------------------------------
(* The entry commands of lib.rs statement by statement (SpecConc): the      *)
(* commands are async and share the pool, so the statements of two calls    *)
(* in flight interleave; each statement is one step of the storage engine.  *)

Tasks == {"t1", "t2"}

\* The date the tasks contend for.
ConcDates == {"2026-01-31"}

Idle ==
    [op |-> "none", pc |-> "idle", date |-> "", content |-> "", mood |-> <<NULL, NULL>>,
     t |-> 0, id |-> 0, entries |-> <<>>, ops |-> <<>>,
     options |-> [overwrite |-> FALSE, include_ai_operations |-> FALSE],
     count |-> 0, ok |-> TRUE, path |-> "", raced |-> FALSE]

\* The bundles imported while other commands run: one entry, with or without
\* an AI operation attached to it.
ConcBundles ==
    {[entries |-> <<e>>, ai_operations |-> ops] :
        e \in {b \in BundleEntries : b.id = 9 /\ b.entry_date \in ConcDates},
        ops \in {<<>>, <<AIOperation(9, 9, 0)>>}}

InitConc ==
    /\ db = BuiltBy(EmptyStore, 1, LatestVersion)
    /\ now = 0
    /\ nextId = 1
    /\ nextOpId = 1
    /\ pool = "ready"
    /\ ret = NoCall
    /\ mig = NoMig
    /\ calls = [p \in Tasks |-> Idle]

Free(p) == calls[p].pc \in {"idle", "done"}

\* The call of task p has returned.
Done(c, ok, path) ==
    [Idle EXCEPT !.op = c.op, !.pc = "done", !.date = c.date, !.content = c.content,
                 !.mood = c.mood, !.count = c.count, !.ok = ok, !.path = path,
                 !.raced = c.raced]

\* let now = chrono::Utc::now().timestamp_millis();
Begin_upsert_entry(p) ==
    /\ Free(p)
    /\ \E date \in ConcDates, content \in Contents :
          calls' = [calls EXCEPT ![p] =
                       [Idle EXCEPT !.op = "upsert_entry", !.pc = "update",
                                    !.date = date, !.content = content, !.t = now]]
    /\ UNCHANGED <<db, now, nextId, nextOpId, pool, ret, mig>>

Begin_upsert_entry_mood(p) ==
    /\ Free(p)
    /\ \E date \in ConcDates, m \in MoodInputs :
          calls' = [calls EXCEPT ![p] =
                       [Idle EXCEPT !.op = "upsert_entry_mood", !.pc = "update",
                                    !.date = date, !.mood = m, !.t = now]]
    /\ UNCHANGED <<db, now, nextId, nextOpId, pool, ret, mig>>

\* Two upserts race when each has run its UPDATE, on the same date, before
\* the other has run its INSERT.
Racing(p, q) ==
    /\ q # p
    /\ calls[q].pc = "insert"
    /\ calls[q].op \in {"upsert_entry", "upsert_entry_mood"}
    /\ calls[q].date = calls[p].date

\* The UPDATE ... RETURNING * of upsert_entry / upsert_entry_mood; when it
\* returns no row the call draws the id of the entry it will insert.
Stmt_update(p) ==
    /\ calls[p].pc = "update"
    /\ LET c == calls[p]
           r == IF c.op = "upsert_entry"
                THEN SqlUpdateContent(db, c.date, c.content, c.t)
                ELSE SqlUpdateMood(db, c.date, c.mood, c.t)
       IN /\ db' = r.db
          /\ IF r.rows # {}
             THEN /\ calls' = [calls EXCEPT ![p] = Done(c, TRUE, "update")]
                  /\ UNCHANGED nextId
             ELSE /\ nextId <= MaxIds
                  /\ nextId' = nextId + 1
                  /\ calls' = [q \in Tasks |->
                                 IF q = p
                                 THEN [c EXCEPT !.pc = "insert", !.id = nextId,
                                                !.raced = \E o \in Tasks : Racing(p, o)]
                                 ELSE IF Racing(p, q)
                                 THEN [calls[q] EXCEPT !.raced = TRUE]
                                 ELSE calls[q]]
    /\ UNCHANGED <<now, nextOpId, pool, ret, mig>>

\* The INSERT of upsert_entry / upsert_entry_mood.
Stmt_insert(p) ==
    /\ calls[p].pc = "insert"
    /\ LET c == calls[p]
           entry == IF c.op = "upsert_entry"
                    THEN DiaryEntry(c.id, c.date, c.content, NULL, NULL, c.t, c.t)
                    ELSE DiaryEntry(c.id, c.date, EmptyDoc, c.mood[1], c.mood[2], c.t, c.t)
           r == SqlInsertEntry(db, entry)
       IN /\ db' = r.db
          /\ calls' = [calls EXCEPT ![p] = Done(c, r.ok, "insert")]
    /\ UNCHANGED <<now, nextId, nextOpId, pool, ret, mig>>

\* delete_entry is one statement.
Call_delete_entry(p) ==
    /\ Free(p)
    /\ \E date \in ConcDates :
          LET r == SqlDeleteEntry(db, date)
          IN /\ db' = r.db
             /\ calls' = [calls EXCEPT ![p] =
                   Done([Idle EXCEPT !.op = "delete_entry", !.date = date,
                                     !.count = r.rows_affected], TRUE, "delete")]
    /\ UNCHANGED <<now, nextId, nextOpId, pool, ret, mig>>

\* The statement import_data runs next: the SELECT of the next entry, the
\* SELECT of the next AI operation, or none.
ImportPc(entries, ops, options) ==
    IF entries # <<>> THEN "select"
    ELSE IF options.include_ai_operations /\ ops # <<>> THEN "select_op"
    ELSE "done"

Advance(c, entries, ops, count) ==
    IF ImportPc(entries, ops, c.options) = "done"
    THEN Done([c EXCEPT !.count = count], TRUE, "import")
    ELSE [c EXCEPT !.pc = ImportPc(entries, ops, c.options), !.entries = entries,
                   !.ops = ops, !.count = count]

Begin_import_data(p) ==
    /\ Free(p)
    /\ \E data \in ConcBundles, options \in ImportOptions :
          calls' = [calls EXCEPT ![p] =
                       Advance([Idle EXCEPT !.op = "import_data", !.options = options],
                               data.entries, data.ai_operations, 0)]
    /\ UNCHANGED <<db, now, nextId, nextOpId, pool, ret, mig>>

\* SELECT id FROM entries WHERE entry_date = ?, and the match on its result
Stmt_import_select(p) ==
    /\ calls[p].pc = "select"
    /\ LET c == calls[p]
           existing == {e.id : e \in RowsOn(db, Head(c.entries).entry_date)}
       IN calls' = [calls EXCEPT ![p] =
                       IF existing = {} THEN [c EXCEPT !.pc = "import_insert"]
                       ELSE IF c.options.overwrite THEN [c EXCEPT !.pc = "import_update"]
                       ELSE Advance(c, Tail(c.entries), c.ops, c.count)]
    /\ UNCHANGED <<db, now, nextId, nextOpId, pool, ret, mig>>

\* INSERT INTO entries of import_data
Stmt_import_insert(p) ==
    /\ calls[p].pc = "import_insert"
    /\ LET c == calls[p]
           r == SqlInsertEntry(db, Head(c.entries))
       IN /\ db' = r.db
          /\ calls' = [calls EXCEPT ![p] =
                          IF r.ok THEN Advance(c, Tail(c.entries), c.ops, c.count + 1)
                          ELSE Done(c, FALSE, "import")]
    /\ UNCHANGED <<now, nextId, nextOpId, pool, ret, mig>>

\* UPDATE entries of import_data
Stmt_import_update(p) ==
    /\ calls[p].pc = "import_update"
    /\ LET c == calls[p]
       IN /\ db' = SqlUpdateImport(db, Head(c.entries)).db
          /\ calls' = [calls EXCEPT ![p] =
                          Advance(c, Tail(c.entries), c.ops, c.count + 1)]
    /\ UNCHANGED <<now, nextId, nextOpId, pool, ret, mig>>

\* SELECT id FROM ai_operations WHERE id = ?
Stmt_import_select_op(p) ==
    /\ calls[p].pc = "select_op"
    /\ LET c == calls[p]
           existing == {o.id : o \in {x \in db.ai : x.id = Head(c.ops).id}}
       IN calls' = [calls EXCEPT ![p] =
                       IF existing = {} THEN [c EXCEPT !.pc = "insert_op"]
                       ELSE Advance(c, <<>>, Tail(c.ops), c.count)]
    /\ UNCHANGED <<db, now, nextId, nextOpId, pool, ret, mig>>

\* INSERT INTO ai_operations of import_data
Stmt_import_insert_op(p) ==
    /\ calls[p].pc = "insert_op"
    /\ LET c == calls[p]
           r == SqlInsertAIOperation(db, Head(c.ops))
       IN /\ db' = r.db
          /\ calls' = [calls EXCEPT ![p] =
                          IF r.ok THEN Advance(c, <<>>, Tail(c.ops), c.count)
                          ELSE Done(c, FALSE, "import")]
    /\ UNCHANGED <<now, nextId, nextOpId, pool, ret, mig>>

ConcTick ==
    /\ now < MaxClock
    /\ now' = now + 1
    /\ UNCHANGED <<db, nextId, nextOpId, pool, ret, mig, calls>>

NextConc ==
    \/ ConcTick
    \/ \E p \in Tasks :
          \/ Begin_upsert_entry(p)
          \/ Begin_upsert_entry_mood(p)
          \/ Stmt_update(p)
          \/ Stmt_insert(p)
          \/ Call_delete_entry(p)
          \/ Begin_import_data(p)
          \/ Stmt_import_select(p)
          \/ Stmt_import_insert(p)
          \/ Stmt_import_update(p)
          \/ Stmt_import_select_op(p)
          \/ Stmt_import_insert_op(p)

SpecConc == InitConc /\ [][NextConc]_vars

---------------------------------------------------------------------------
(* Claims on the interleaved commands.                                      *)

Upserts == {"upsert_entry", "upsert_entry_mood"}

MonthOf(date) == CHOOSE month \in Months : StartsWith(date, month)

\* The step in which the upsert of task p returns Ok.
ReturnsOk(p) ==
    /\ calls[p].op \in Upserts
    /\ calls[p].pc \in {"update", "insert"}
    /\ calls'[p].pc = "done"
    /\ calls'[p].ok

C2_Step ==
    \A p \in Tasks :
        ReturnsOk(p) =>
            /\ calls[p].op = "upsert_entry" =>
                  {e.content_json : e \in get_entry(db', calls[p].date)}
                      = {calls[p].content}
            /\ calls[p].op = "upsert_entry_mood" =>
                  {<<e.mood, e.mood_emoji>> : e \in get_entry(db', calls[p].date)}
                      = {calls[p].mood}
            /\ LET listed == list_entries(db', MonthOf(calls[p].date))
               IN Cardinality({i \in 1..Len(listed) :
                                  listed[i].entry_date = calls[p].date}) = 1

\* C2: no two stored entries share an entry_date, whatever the interleaving
\* of the statements of upsert_entry, upsert_entry_mood, delete_entry and
\* import_data; and when an upsert on date d returns Ok, get_entry(d) returns
\* an entry with the content (the mood) of that upsert and list_entries for
\* the month of d lists exactly one entry dated d.
C2_OneEntryPerDate ==
    /\ [](\A e, f \in db.entries : e.entry_date = f.entry_date => e = f)
    /\ [][C2_Step]_vars

\* An upsert_entry has returned Ok on a date for which another call's INSERT
\* was refused.
C2_Witness ==
    \E p, q \in Tasks :
        /\ calls[p].pc = "done" /\ calls[p].op = "upsert_entry" /\ calls[p].ok
        /\ calls[q].pc = "done" /\ calls[q].op \in Upserts /\ ~calls[q].ok
        /\ calls[q].date = calls[p].date
        /\ RowsOn(db, calls[p].date) # {}

\* The content and the mood an entry created by the upserts first, second
\* (in this order) carries.
SerialContent(first, second) ==
    IF second.op = "upsert_entry" THEN second.content
    ELSE IF first.op = "upsert_entry" THEN first.content
    ELSE EmptyDoc

SerialMood(first, second) ==
    IF second.op = "upsert_entry_mood" THEN second.mood
    ELSE IF first.op = "upsert_entry_mood" THEN first.mood
    ELSE <<NULL, NULL>>

SerialOutcome(e, first, second) ==
    /\ e.content_json = SerialContent(first, second)
    /\ <<e.mood, e.mood_emoji>> = SerialMood(first, second)

\* C3: when two upserts (of content or of mood) on a date with no entry
\* overlap, both return an entry without error, and the store holds one
\* entry for the date, as left by the two calls in one order or the other.
C3_OverlappingUpsertsBothSucceed ==
    \A p, q \in Tasks :
        (/\ p # q
         /\ calls[p].pc = "done" /\ calls[p].op \in Upserts /\ calls[p].raced
         /\ calls[q].pc = "done" /\ calls[q].op \in Upserts /\ calls[q].raced
         /\ calls[p].date = calls[q].date)
        => /\ calls[p].ok
           /\ calls[q].ok
           /\ \E e \in db.entries :
                 /\ RowsOn(db, calls[p].date) = {e}
                 /\ \/ SerialOutcome(e, calls[p], calls[q])
                    \/ SerialOutcome(e, calls[q], calls[p])

---------------------------------------------------------------------------
(* The data exchange (SpecData): the store behind the ready pool, with the  *)
(* calls of queries.rs that read it out and write bundles into it.          *)

MaxDataBundle == 2

MaxDataOps == 1

\* The entries of the bundles read in: one with an id of its own, one with
\* the id the first entry written here has.
DataEntries ==
    {b \in BundleEntries :
        \/ b.id = 9 /\ b.entry_date = "2026-01-31"
        \/ b.id = 1 /\ b.entry_date = "2026-02-01"}

\* AI operations of a bundle, recorded at time 0 on another installation.
DataOperations == {AIOperation(9, e, 0) : e \in BundleIds}

DataBundles ==
    [entries : SeqsUpTo(DataEntries, MaxDataBundle),
     ai_operations : SeqsUpTo(DataOperations, MaxDataOps)]

\* The ids an entry can have: drawn here, or brought by a bundle.
EntryIds == (1..MaxIds) \cup BundleIds

\* (the entries in descending order)
EntriesAsc_Desc(S) == EntriesDesc(S)

\* ORDER BY entry_date ASC
EntriesAsc(S) ==
    CHOOSE s \in [1..Cardinality(S) -> S] :
        /\ {s[i] : i \in 1..Cardinality(S)} = S
        /\ \A i, j \in 1..Cardinality(S) :
              i < j => ~ StrLess(s[j].entry_date, s[i].entry_date)

\* ORDER BY created_at ASC: rows of equal created_at come in any order.
OperationsAsc(S) ==
    {s \in [1..Cardinality(S) -> S] :
        /\ {s[i] : i \in 1..Cardinality(S)} = S
        /\ \A i, j \in 1..Cardinality(S) : i < j => s[i].created_at <= s[j].created_at}

\* The bundles export_all_data can return at time t.
export_all_data(d, t) ==
    {[version |-> "1.0", exported_at |-> t, entries |-> EntriesAsc(d.entries),
      ai_operations |-> ops] : ops \in OperationsAsc(d.ai)}

\* The store was built at time 0; the calls come at time 1.
InitData ==
    /\ db = BuiltBy(EmptyStore, 1, LatestVersion)
    /\ now = 1
    /\ nextId = 1
    /\ nextOpId = 1
    /\ pool = "ready"
    /\ ret = NoCall
    /\ mig = NoMig
    /\ calls = <<>>

Call_create_ai_operation ==
    /\ pool = "ready"
    /\ nextOpId <= MaxOps
    /\ \E entry_id \in EntryIds :
          LET r == create_ai_operation(db, entry_id, now, nextOpId)
          IN /\ db' = r.db
             /\ ret' = [op |-> "create_ai_operation", arg |-> entry_id, ok |-> r.ok,
                        err |-> r.err, val |-> r.val]
             /\ nextOpId' = IF r.ok THEN nextOpId + 1 ELSE nextOpId
    /\ UNCHANGED <<now, nextId, pool, mig, calls>>

Call_delete_ai_operations_for_entry ==
    /\ pool = "ready"
    /\ \E entry_id \in EntryIds :
          Return("delete_ai_operations_for_entry", entry_id,
                 delete_ai_operations_for_entry(db, entry_id))
    /\ UNCHANGED <<now, nextId, nextOpId, pool, mig, calls>>

Call_import_data ==
    /\ pool = "ready"
    /\ \E data \in DataBundles, options \in ImportOptions :
          Return("import_data", [data |-> data, options |-> options],
                 import_data(db, data, options))
    /\ UNCHANGED <<now, nextId, nextOpId, pool, mig, calls>>

Call_export_all_data ==
    /\ pool = "ready"
    /\ \E data \in export_all_data(db, now) :
          ret' = [op |-> "export_all_data", arg |-> "", ok |-> TRUE, val |-> data]
    /\ UNCHANGED <<db, now, nextId, nextOpId, pool, mig, calls>>

NextData ==
    \/ Cmd_upsert_entry
    \/ Cmd_delete_entry
    \/ Cmd_ai_polish
    \/ Call_create_ai_operation
    \/ Call_delete_ai_operations_for_entry
    \/ Call_import_data
    \/ Call_export_all_data

SpecData == InitData /\ [][NextData]_vars

---------------------------------------------------------------------------
(* Claims on the data exchange *)

ImportReturns == ret'.op = "import_data"

BundleDates(entries) == {entries[i].entry_date : i \in 1..Len(entries)}

\* The first and the last entry a bundle has for a date.
FirstOn(entries, date) ==
    entries[CHOOSE i \in 1..Len(entries) :
               /\ entries[i].entry_date = date
               /\ \A j \in 1..(i - 1) : entries[j].entry_date # date]

LastOn(entries, date) ==
    entries[CHOOSE i \in 1..Len(entries) :
               /\ entries[i].entry_date = date
               /\ \A j \in (i + 1)..Len(entries) : entries[j].entry_date # date]

SameButIdentity(f, b) ==
    /\ f.content_json = b.content_json
    /\ f.mood = b.mood
    /\ f.mood_emoji = b.mood_emoji
    /\ f.updated_at = b.updated_at

\* C11: an import_data that returns Ok has matched each bundle entry on its
\* entry_date only.  A date with no stored entry gets the bundle's entry
\* with the bundle's id, mood and timestamps; a date with a stored entry
\* keeps the stored id and created_at and, with overwrite, takes content,
\* mood, mood_emoji and updated_at from the bundle; without overwrite the
\* stored row is unchanged.  The count is the number of bundle entries
\* inserted or overwritten, whatever AI operations the bundle has.
C11_Step ==
    (ImportReturns /\ ret'.ok) =>
        LET entries == ret'.arg.data.entries
            overwrite == ret'.arg.options.overwrite
            new == {d \in BundleDates(entries) : RowsOn(db, d) = {}}
        IN /\ \A d \in new :
                 IF overwrite
                 THEN \E f \in db'.entries :
                         /\ RowsOn(db', d) = {f}
                         /\ f.id = FirstOn(entries, d).id
                         /\ f.created_at = FirstOn(entries, d).created_at
                         /\ SameButIdentity(f, LastOn(entries, d))
                 ELSE RowsOn(db', d) = {FirstOn(entries, d)}
           /\ \A d \in BundleDates(entries) \ new :
                 IF overwrite
                 THEN \E e \in db.entries, f \in db'.entries :
                         /\ RowsOn(db, d) = {e}
                         /\ RowsOn(db', d) = {f}
                         /\ f.id = e.id
                         /\ f.created_at = e.created_at
                         /\ SameButIdentity(f, LastOn(entries, d))
                 ELSE RowsOn(db', d) = RowsOn(db, d)
           /\ \A d \in Dates \ BundleDates(entries) : RowsOn(db', d) = RowsOn(db, d)
           /\ ret'.val = IF overwrite THEN Len(entries) ELSE Cardinality(new)

C11_ImportMatchesOnDate == [][C11_Step]_vars

\* An import with overwrite has replaced the content of an entry written
\* here, under its local id, and has inserted the bundle's other entry.
C11_Witness ==
    /\ ret.op = "import_data" /\ ret.ok /\ ret.val = 2
    /\ ret.arg.options.overwrite
    /\ \E e \in db.entries :
          /\ e.id = 2 /\ e.entry_date = "2026-01-31" /\ e.content_json = "b"
          /\ e.created_at = 1 /\ e.updated_at = 0
    /\ \E e \in db.entries : e.id = 1 /\ e.entry_date = "2026-02-01"

IdsOf(rows) == {x.id : x \in rows}

\* C12: import_data returns Ok whatever records the bundle has: a record
\* that cannot be applied is skipped alone.  Every bundle entry for a date
\* without an entry whose id is not taken is stored, every AI operation of
\* the bundle (when they are included) whose entry is stored afterwards is
\* stored too, and the count is a number of bundle entries.
C12_Step ==
    ImportReturns =>
        LET data == ret'.arg.data
            options == ret'.arg.options
        IN /\ ret'.ok
           /\ ret'.val \in 0..Len(data.entries)
           /\ \A i \in 1..Len(data.entries) :
                 data.entries[i].id \notin IdsOf(db.entries)
                     => RowsOn(db', data.entries[i].entry_date) # {}
           /\ \A i \in 1..Len(data.ai_operations) :
                 (/\ options.include_ai_operations
                  /\ data.ai_operations[i].entry_id \in IdsOf(db'.entries))
                     => data.ai_operations[i].id \in IdsOf(db'.ai)

C12_ImportSkipsBadRecords == [][C12_Step]_vars

\* C13: when an import_data of a bundle has returned Ok and the next call
\* imports the same bundle with overwrite = false (AI operations included or
\* not), that call returns 0 and every stored entry, AI operation and index
\* row is as it was.
C13_Step ==
    (/\ ret.op = "import_data" /\ ret.ok
     /\ ImportReturns
     /\ ret'.arg.data = ret.arg.data
     /\ ~ ret'.arg.options.overwrite)
    => /\ ret'.ok
       /\ ret'.val = 0
       /\ db'.entries = db.entries
       /\ db'.fts = db.fts
       /\ db.ai \subseteq db'.ai

C13_ReimportChangesNothing == [][C13_Step]_vars

\* C14: a stored AI operation keeps all its fields as long as it is stored.
\* Records are added by ai_polish / create_ai_operation and by import_data
\* with include_ai_operations only, under ids that were not present; a
\* record goes away only with the entry it belongs to (delete_entry) or by
\* delete_ai_operations_for_entry for its entry_id.
C14_Step ==
    /\ \A o \in db.ai : \A n \in db'.ai : n.id = o.id => n = o
    /\ \A n \in db'.ai \ db.ai :
          /\ n.id \notin IdsOf(db.ai)
          /\ ret'.op \in {"ai_polish", "create_ai_operation", "import_data"}
          /\ ret'.op = "import_data" => ret'.arg.options.include_ai_operations
    /\ \A o \in db.ai \ db'.ai :
          \/ /\ ret'.op = "delete_entry"
             /\ o.entry_id \in IdsOf(db.entries) \ IdsOf(db'.entries)
          \/ /\ ret'.op = "delete_ai_operations_for_entry"
             /\ ret'.arg = o.entry_id

C14_OperationsAppendOnly == [][C14_Step]_vars

\* An import with AI operations has met a stored record with the id of the
\* bundle's record and other fields, and has left it.
C14_Witness ==
    /\ ret.op = "import_data" /\ ret.ok
    /\ ret.arg.options.include_ai_operations
    /\ \E i \in 1..Len(ret.arg.data.ai_operations) : \E o \in db.ai :
          /\ o.id = ret.arg.data.ai_operations[i].id
          /\ o.entry_id # ret.arg.data.ai_operations[i].entry_id

\* C15: recording an AI operation against an entry that does not exist
\* returns EntryNotFound and stores nothing: ai_polish on a date without an
\* entry, and create_ai_operation with an entry_id no stored entry has (the
\* call ai_polish makes when its entry was deleted after the lookup).
C15_Step ==
    /\ (ret'.op = "ai_polish" /\ RowsOn(db, ret'.arg) = {}) =>
          /\ ~ ret'.ok
          /\ ai_polish(db, ret'.arg, now, nextOpId, "ok").err = "EntryNotFound"
          /\ db' = db
    /\ (ret'.op = "create_ai_operation" /\ ret'.arg \notin IdsOf(db.entries)) =>
          /\ ~ ret'.ok
          /\ ret'.err = "EntryNotFound"
          /\ db' = db

C15_MissingEntryIsEntryNotFound == [][C15_Step]_vars

\* C20: export_all_data returns every stored entry once, in ascending
\* entry_date order, and every stored AI operation once, in ascending
\* created_at order, under version "1.0", and leaves the store as it was.
C20_Step ==
    ret'.op = "export_all_data" =>
        LET entries == ret'.val.entries
            ops == ret'.val.ai_operations
        IN /\ ret'.ok
           /\ db' = db
           /\ ret'.val.version = "1.0"
           /\ Len(entries) = Cardinality(db.entries)
           /\ {entries[i] : i \in 1..Len(entries)} = db.entries
           /\ \A i, j \in 1..Len(entries) :
                 i < j => StrLess(entries[i].entry_date, entries[j].entry_date)
           /\ Len(ops) = Cardinality(db.ai)
           /\ {ops[i] : i \in 1..Len(ops)} = db.ai
           /\ \A i, j \in 1..Len(ops) : i < j => ops[i].created_at <= ops[j].created_at

C20_ExportIsComplete == [][C20_Step]_vars

\* An export of two entries and of two AI operations recorded at different
\* times.
C20_Witness ==
    /\ ret.op = "export_all_data"
    /\ Len(ret.val.entries) = 2
    /\ Len(ret.val.ai_operations) = 2
    /\ ret.val.ai_operations[1].created_at < ret.val.ai_operations[2].created_at

---------------------------------------------------------------------------
(* Dates as chrono reads them, and the statistics of queries.rs *)

\* The number of leading digits of s that a numeric field of width max takes.
LeadingDigits(s, max) ==
    CHOOSE k \in 0..max :
        /\ k <= Len(s)
        /\ \A i \in 1..k : s[i] \in 0..9
        /\ (k = max \/ k = Len(s) \/ s[k + 1] \notin 0..9)

RECURSIVE Number(_)
Number(s) ==
    IF s = <<>> THEN 0 ELSE 10 * Number(SubSeq(s, 1, Len(s) - 1)) + s[Len(s)]

IsLeap(y) == (y % 4 = 0 /\ y % 100 # 0) \/ y % 400 = 0

DaysInMonth(y, m) ==
    IF m = 2 THEN (IF IsLeap(y) THEN 29 ELSE 28)
    ELSE IF m \in {4, 6, 9, 11} THEN 30 ELSE 31

\* NaiveDate::parse_from_str(s, "%Y-%m-%d") on the characters of s: %Y takes
\* up to four digits, %m and %d up to two (at least one each), '-' between
\* them, nothing after; the day must exist.  The result is a set: empty for
\* Err, else the date.
parse_from_str(s) ==
    LET ky == LeadingDigits(s, 4)
        r1 == SubSeq(s, ky + 1, Len(s))
        r2 == Tail(r1)
        km == LeadingDigits(r2, 2)
        r3 == SubSeq(r2, km + 1, Len(r2))
        r4 == Tail(r3)
        kd == LeadingDigits(r4, 2)
        year == Number(SubSeq(s, 1, ky))
        month == Number(SubSeq(r2, 1, km))
        day == Number(r4)
    IN IF ky = 0 \/ r1 = <<>> \/ Head(r1) # -1 THEN {}
       ELSE IF km = 0 \/ r3 = <<>> \/ Head(r3) # -1 THEN {}
       ELSE IF kd = 0 \/ kd # Len(r4) THEN {}
       ELSE IF month \notin 1..12 \/ day \notin 1..DaysInMonth(year, month) THEN {}
       ELSE {[year |-> year, month |-> month, day |-> day]}

RECURSIVE DaysBefore(_, _)
DaysBefore(y, m) == IF m = 1 THEN 0 ELSE DaysBefore(y, m - 1) + DaysInMonth(y, m - 1)

\* The day number of a date (days since 0000-12-31), by which NaiveDate
\* compares and subtracts.
num_days(date) ==
    LET y == date.year - 1
    IN 365 * y + (y \div 4) - (y \div 100) + (y \div 400)
       + DaysBefore(date.year, date.month) + date.day

\* lib.rs
\* (no validation)
validate_entry_date_Any(value) == TRUE

validate_entry_date(value) == parse_from_str(Chars[value]) # {}

validate_month(value) ==
    /\ Len(Chars[value]) = 7
    /\ parse_from_str(Chars[value] \o <<-1, 0, 1>>) # {}

\* SELECT entry_date FROM entries ORDER BY entry_date ASC
RECURSIVE OrderAsc(_)
OrderAsc(S) ==
    IF S = {} THEN <<>>
    ELSE LET least == CHOOSE x \in S : \A y \in S : ~ StrLess(y, x)
         IN <<least>> \o OrderAsc(S \ {least})

\* The loop of calculate_current_streak, at dates[i] going down.
RECURSIVE CurrentStreakLoop(_, _, _, _)
CurrentStreakLoop(dates, i, check_date, streak_count) ==
    IF i = 0 THEN streak_count
    ELSE LET parsed == parse_from_str(Chars[dates[i]])
             entry_date == num_days(CHOOSE p \in parsed : TRUE)
         IN IF parsed = {} THEN CurrentStreakLoop(dates, i - 1, check_date, streak_count)
            ELSE IF entry_date = check_date
            THEN CurrentStreakLoop(dates, i - 1, check_date - 1, streak_count + 1)
            ELSE IF entry_date < check_date THEN streak_count
            ELSE CurrentStreakLoop(dates, i - 1, check_date, streak_count)

calculate_current_streak(dates, today) ==
    IF dates = <<>> THEN 0 ELSE CurrentStreakLoop(dates, Len(dates), today, 0)

Max(a, b) == IF a >= b THEN a ELSE b

\* The loop of calculate_longest_streak, at dates[i] going up; prev_date is
\* a set (Option).
RECURSIVE LongestStreakLoop(_, _, _, _, _)
LongestStreakLoop(dates, i, prev_date, current_streak, longest_streak) ==
    IF i > Len(dates) THEN Max(longest_streak, current_streak)
    ELSE LET parsed == parse_from_str(Chars[dates[i]])
             entry_date == num_days(CHOOSE p \in parsed : TRUE)
             diff == entry_date - (CHOOSE prev \in prev_date : TRUE)
         IN IF parsed = {}
            THEN LongestStreakLoop(dates, i + 1, prev_date, current_streak, longest_streak)
            ELSE IF prev_date = {}
            THEN LongestStreakLoop(dates, i + 1, {entry_date}, 1, longest_streak)
            ELSE IF diff = 1
            THEN LongestStreakLoop(dates, i + 1, {entry_date}, current_streak + 1,
                                   longest_streak)
            ELSE LongestStreakLoop(dates, i + 1, {entry_date}, 1,
                                   Max(longest_streak, current_streak))

calculate_longest_streak(dates) ==
    IF dates = <<>> THEN 0 ELSE LongestStreakLoop(dates, 1, {}, 0, 0)

get_writing_stats(d, today) ==
    LET dates == OrderAsc({e.entry_date : e \in d.entries})
    IN [total_entries |-> Cardinality(d.entries),
        current_streak |-> calculate_current_streak(dates, today),
        longest_streak |-> calculate_longest_streak(dates)]

---------------------------------------------------------------------------
(* The reading commands (SpecRead): entries under every date string that    *)
(* gets into the store, listed, searched and counted.                       *)

MaxReadIds == 3

\* The strings tried as entry_date and as month.
DateInputs == Dates \cup OtherDates

MonthInputs == Months \cup OtherMonths

\* Utc::now().date_naive() at the time of a call
Todays ==
    {num_days(CHOOSE p \in parse_from_str(Chars[s]) : TRUE) :
        s \in {"2026-02-01", "2026-02-02"}}

\* Queries, as characters.
Whitespace == {" ", "\t", "\n"}

SearchInputs ==
    {<<>>, <<"\t", " ">>, <<"\n">>, <<"a">>, <<" ", "b", "\n">>}

\* str::trim
RECURSIVE trim_start(_)
trim_start(q) ==
    IF q # <<>> /\ Head(q) \in Whitespace THEN trim_start(Tail(q)) ELSE q

RECURSIVE trim_end(_)
trim_end(q) ==
    IF q # <<>> /\ q[Len(q)] \in Whitespace
    THEN trim_end(SubSeq(q, 1, Len(q) - 1)) ELSE q

trim(q) == trim_end(trim_start(q))

\* (the command without the check for an empty query)
cmd_search_entries_NoCheck(d, query) ==
    [ok |-> trim(query) # <<>>,
     val |-> IF trim(query) = <<>> THEN <<>> ELSE search_entries(d, trim(query)[1]),
     sent |-> 1]

\* lib.rs search_entries: the trimmed query goes to queries::search_entries
\* unless it is empty (the queries tried have one term of one character);
\* sent counts the statements sent to the pool.
cmd_search_entries(d, query) ==
    IF trim(query) = <<>> THEN [ok |-> TRUE, val |-> <<>>, sent |-> 0]
    ELSE [ok |-> TRUE, val |-> search_entries(d, trim(query)[1]), sent |-> 1]

InitRead ==
    /\ db = BuiltBy(EmptyStore, 1, LatestVersion)
    /\ now = 1
    /\ nextId = 1
    /\ nextOpId = 1
    /\ pool = "ready"
    /\ ret = NoCall
    /\ mig = NoMig
    /\ calls = <<>>

\* lib.rs upsert_entry, with the validation of its date
Cmd_upsert_entry_validated ==
    /\ pool = "ready"
    /\ \E date \in DateInputs :
          IF validate_entry_date(date)
          THEN /\ Fresh(date) <= MaxReadIds + 1
               /\ Return("upsert_entry", date, upsert_entry(db, date, "a", now, nextId))
               /\ nextId' = Fresh(date)
          ELSE /\ ret' = [op |-> "upsert_entry", arg |-> date, ok |-> FALSE, val |-> {},
                           err |-> "InvalidEntryDate", sent |-> 0]
               /\ UNCHANGED <<db, nextId>>
    /\ UNCHANGED <<now, nextOpId, pool, mig, calls>>

\* import_data of a bundle with one entry, under any entry_date, without
\* overwrite
Call_import_entry ==
    /\ pool = "ready"
    /\ \E date \in DateInputs, overwrite \in {FALSE} :
          Return("import_data", date,
                 import_data(db,
                    [entries |-> <<DiaryEntry(9, date, "b", "happy", ":)", 0, 0)>>,
                     ai_operations |-> <<>>],
                    [overwrite |-> overwrite, include_ai_operations |-> FALSE]))
    /\ UNCHANGED <<now, nextId, nextOpId, pool, mig, calls>>

\* lib.rs list_entries
Cmd_list_entries ==
    /\ pool = "ready"
    /\ \E month \in MonthInputs :
          ret' = IF validate_month(month)
                 THEN [op |-> "list_entries", arg |-> month, ok |-> TRUE,
                       val |-> list_entries(db, month)]
                 ELSE [op |-> "list_entries", arg |-> month, ok |-> FALSE, val |-> <<>>,
                       err |-> "InvalidEntryDate", sent |-> 0]
    /\ UNCHANGED <<db, now, nextId, nextOpId, pool, mig, calls>>

Cmd_search_entries ==
    /\ pool = "ready"
    /\ \E query \in SearchInputs :
          LET r == cmd_search_entries(db, query)
          IN ret' = [op |-> "search_entries", arg |-> query, ok |-> r.ok,
                     val |-> r.val, sent |-> r.sent]
    /\ UNCHANGED <<db, now, nextId, nextOpId, pool, mig, calls>>

Call_get_writing_stats ==
    /\ pool = "ready"
    /\ \E today \in Todays :
          ret' = [op |-> "get_writing_stats", arg |-> today, ok |-> TRUE,
                  val |-> get_writing_stats(db, today)]
    /\ UNCHANGED <<db, now, nextId, nextOpId, pool, mig, calls>>

NextRead ==
    \/ Cmd_upsert_entry_validated
    \/ Call_import_entry
    \/ Cmd_list_entries
    \/ Cmd_search_entries
    \/ Call_get_writing_stats

SpecRead == InitRead /\ [][NextRead]_vars

---------------------------------------------------------------------------
(* Claims on the reading commands *)

\* The calendar days that have an entry: the stored dates that parse.
ParsedDays(d) ==
    {num_days(p) : p \in UNION {parse_from_str(Chars[e.entry_date]) : e \in d.entries}}

\* The number of days in a row, ending today, that have an entry.
DaysInARowUpTo(days, today) ==
    CHOOSE k \in 0..Cardinality(days) :
        /\ \A j \in 0..(k - 1) : today - j \in days
        /\ today - k \notin days

\* The length of the longest run of consecutive days.
LongestRun(days) ==
    CHOOSE k \in 0..Cardinality(days) :
        /\ k > 0 => \E first \in days : \A j \in 0..(k - 1) : first + j \in days
        /\ ~ \E first \in days : \A j \in 0..k : first + j \in days

\* C16: whatever entry dates are stored and whatever day today is,
\* current_streak is the largest k such that today, today-1, ...,
\* today-k+1 all have an entry (0 when today has none); entries after today
\* and entries whose date does not parse do not count.
C16_CurrentStreakIsDaysInARow ==
    ret.op = "get_writing_stats" =>
        ret.val.current_streak = DaysInARowUpTo(ParsedDays(db), ret.arg)

\* C17: whatever entry_date strings are stored (zero-padded or not, by
\* upsert or by import), longest_streak is the length of the longest run of
\* consecutive calendar days among the stored dates that parse, 0 when none
\* parses.
C17_LongestStreakIsLongestRun ==
    ret.op = "get_writing_stats" =>
        ret.val.longest_streak = LongestRun(ParsedDays(db))

\* C19: list_entries(month) returns the stored entries whose entry_date
\* starts with the month string, each once, in descending entry_date order,
\* and nothing else.
C19_ListIsTheMonth ==
    (ret.op = "list_entries" /\ ret.ok) =>
        LET listed == ret.val
            n == Len(listed)
        IN /\ {listed[i] : i \in 1..n}
                 = {e \in db.entries : StartsWith(e.entry_date, ret.arg)}
           /\ \A i, j \in 1..n : i < j => StrLess(listed[j].entry_date, listed[i].entry_date)

\* A month with two entries was listed while the store had an entry of
\* another month too.
C19_Witness ==
    /\ ret.op = "list_entries" /\ ret.ok /\ Len(ret.val) = 2
    /\ \E e \in db.entries : ~ StartsWith(e.entry_date, ret.arg)

\* C18: search_entries with a query that is empty or all whitespace returns
\* Ok with no entry and sends no statement to the store, whatever is stored.
C18_BlankQueryFindsNothing ==
    (ret.op = "search_entries" /\ \A i \in 1..Len(ret.arg) : ret.arg[i] \in Whitespace)
        => /\ ret.ok
           /\ ret.val = <<>>
           /\ ret.sent = 0

\* A blank query that is not empty was run on a store with entries.
C18_Witness ==
    /\ ret.op = "search_entries" /\ ret.ok /\ ret.val = <<>>
    /\ Len(ret.arg) = 2 /\ \A i \in 1..Len(ret.arg) : ret.arg[i] \in Whitespace
    /\ db.entries # {}

---------------------------------------------------------------------------
(* Start-up order (Spec) *)

\* The committed store records every version and holds every schema object.
Migrated(d) ==
    /\ Versions(d) = 1..LatestVersion
    /\ \A v \in 1..LatestVersion : StepObjects(v) \subseteq d.schema

StoreOps ==
    {"upsert_entry", "upsert_entry_mood", "delete_entry", "ai_polish", "import_data"}

\* C21: no operation executes against the store before the migration run
\* has committed: the pool is available only after get_pool returned Ok,
\* which it does only after migrations::run returned Ok, and every operation
\* runs on a pool that is available, so on a migrated store.
C21_Step ==
    /\ pool' = "ready" => Migrated(db')
    /\ (pool = "none" /\ pool' = "ready") => (IsCall("get_pool") /\ ret'.ok)
    /\ (\E op \in StoreOps : IsCall(op)) => (pool = "ready" /\ Migrated(db))
    /\ db' # db => (IsCall("get_pool") \/ pool = "ready")

C21_NoOperationBeforeMigration == [][C21_Step]_vars

\* A second entry was written to the store start-up had migrated.
C21_Witness ==
    /\ pool = "ready" /\ Migrated(db)
    /\ ret.op = "upsert_entry" /\ ret.ok
    /\ Cardinality(db.entries) = 2

---------------------------------------------------------------------------
(* The commands of lib.rs with their validation, one call at a time
   (SpecEdge) *)

\* Strings given to the commands as a date or as a month.
EdgeInputs == {"2026-01-31", "2026-02-30", "2026-02", "2026-13"}

\* SELECT * FROM entries WHERE entry_date LIKE ? AND mood = ?
\* ORDER BY entry_date DESC
list_entries_by_mood(d, month, mood) ==
    EntriesDesc({e \in d.entries :
        /\ SqlLike(Chars[e.entry_date], Chars[month] \o <<Percent>>)
        /\ e.mood = mood})

\* What `validate_entry_date(..)?` and `validate_month(..)?` return early.
InvalidEntryDate(op, value) ==
    [op |-> op, arg |-> value, ok |-> FALSE, val |-> {},
     err |-> "InvalidEntryDate", sent |-> 0]

Cmd_get_entry ==
    /\ pool = "ready"
    /\ \E date \in EdgeInputs :
          ret' = IF validate_entry_date(date)
                 THEN [op |-> "get_entry", arg |-> date, ok |-> TRUE,
                       val |-> get_entry(db, date), err |-> "", sent |-> 1]
                 ELSE InvalidEntryDate("get_entry", date)
    /\ UNCHANGED <<db, now, nextId, nextOpId, pool, mig, calls>>

Cmd_delete_entry_validated ==
    /\ pool = "ready"
    /\ \E date \in EdgeInputs :
          IF validate_entry_date(date)
          THEN Return("delete_entry", date, delete_entry(db, date))
          ELSE /\ ret' = InvalidEntryDate("delete_entry", date)
               /\ db' = db
    /\ UNCHANGED <<now, nextId, nextOpId, pool, mig, calls>>

Cmd_upsert_entry_mood_validated ==
    /\ pool = "ready"
    /\ \E date \in EdgeInputs, m \in MoodInputs :
          IF validate_entry_date(date)
          THEN /\ Fresh(date) <= MaxReadIds + 1
               /\ Return("upsert_entry_mood", date,
                         upsert_entry_mood(db, date, m, now, nextId))
               /\ nextId' = Fresh(date)
          ELSE /\ ret' = InvalidEntryDate("upsert_entry_mood", date)
               /\ UNCHANGED <<db, nextId>>
    /\ UNCHANGED <<now, nextOpId, pool, mig, calls>>

Cmd_ai_polish_validated ==
    /\ pool = "ready"
    /\ nextOpId <= MaxOps
    /\ \E date \in EdgeInputs, ext \in {"ok", "no_api_key"} :
          IF validate_entry_date(date)
          THEN LET r == ai_polish(db, date, now, nextOpId, ext)
               IN /\ Return("ai_polish", date, r)
                  /\ nextOpId' = IF r.ok THEN nextOpId + 1 ELSE nextOpId
          ELSE /\ ret' = InvalidEntryDate("ai_polish", date)
               /\ UNCHANGED <<db, nextOpId>>
    /\ UNCHANGED <<now, nextId, pool, mig, calls>>

Cmd_list_entries_by_mood ==
    /\ pool = "ready"
    /\ \E month \in EdgeInputs, mood \in {"happy"} :
          ret' = IF validate_month(month)
                 THEN [op |-> "list_entries_by_mood", arg |-> month, ok |-> TRUE,
                       val |-> list_entries_by_mood(db, month, mood),
                       err |-> "", sent |-> 1]
                 ELSE [InvalidEntryDate("list_entries_by_mood", month)
                          EXCEPT !.val = <<>>]
    /\ UNCHANGED <<db, now, nextId, nextOpId, pool, mig, calls>>

NextEdge ==
    \/ Cmd_upsert_entry_validated
    \/ Cmd_get_entry
    \/ Cmd_delete_entry_validated
    \/ Cmd_upsert_entry_mood_validated
    \/ Cmd_ai_polish_validated
    \/ Cmd_list_entries
    \/ Cmd_list_entries_by_mood
    \/ Cmd_search_entries

SpecEdge == InitRead /\ [][NextEdge]_vars

---------------------------------------------------------------------------
(* Claims on the validated commands (SpecEdge) *)

\* The inputs that name a day of the calendar, and those that name a month.
CalendarDays ==
    {"2026-01-31", "2026-02-01", "2026-02-02", "2026-1-31", "2026-2-1"}

CalendarMonths == {"2026-01", "2026-02"}

DateCommands ==
    {"upsert_entry", "get_entry", "delete_entry", "upsert_entry_mood", "ai_polish"}

MonthCommands == {"list_entries", "list_entries_by_mood"}

\* C22: upsert_entry, get_entry, delete_entry, upsert_entry_mood and
\* ai_polish given a malformed date, and list_entries and
\* list_entries_by_mood given a malformed month, return InvalidEntryDate and
\* perform no read or write on the store, which is left unchanged.
C22_Step ==
    (\/ ret'.op \in DateCommands /\ ret'.arg \notin CalendarDays
     \/ ret'.op \in MonthCommands /\ ret'.arg \notin CalendarMonths)
        => /\ ~ ret'.ok
           /\ ret'.err = "InvalidEntryDate"
           /\ ret'.sent = 0
           /\ db' = db
           /\ nextId' = nextId /\ nextOpId' = nextOpId

---------------------------------------------------------------------------
(* queries.rs: the app settings, one call at a time (SpecSettings) *)

MaxSaves == 3

SettingKeys == {"ai_config", "tts_config"}

SettingValues == {"a", "b"}

\* (INSERT without the ON CONFLICT clause, on a table without the key)
save_setting_InsertOnly(d, key, value, t) ==
    Ok({}, [d EXCEPT !.settings =
                @ \cup {[key |-> key, value |-> value, updated_at |-> t]}])

\* INSERT INTO app_settings (key, value, updated_at) VALUES (?, ?, ?)
\* ON CONFLICT(key) DO UPDATE SET value = ?, updated_at = ?
save_setting(d, key, value, t) ==
    IF "app_settings" \notin d.schema THEN Err("Database", d)
    ELSE Ok({}, [d EXCEPT !.settings =
                    {r \in @ : r.key # key}
                    \cup {[key |-> key, value |-> value, updated_at |-> t]}])

\* SELECT value FROM app_settings WHERE key = ?, fetch_optional: the value
\* of a row with the key, None when there is none.
get_setting(d, key) ==
    LET rows == {r \in d.settings : r.key = key}
    IN IF rows = {} THEN {} ELSE {(CHOOSE r \in rows : TRUE).value}

InitSettings ==
    /\ db = BuiltBy(EmptyStore, 1, LatestVersion)
    /\ now = 0
    /\ nextId = 1
    /\ nextOpId = 1
    /\ pool = "ready"
    /\ ret = NoCall
    /\ mig = NoMig
    /\ calls = <<>>

\* calls is the log of the save_setting calls made so far.
Call_save_setting ==
    /\ pool = "ready"
    /\ Len(calls) < MaxSaves
    /\ \E key \in SettingKeys, value \in SettingValues :
          /\ Return("save_setting", key, save_setting(db, key, value, now))
          /\ calls' = Append(calls, [key |-> key, value |-> value])
    /\ UNCHANGED <<now, nextId, nextOpId, pool, mig>>

Call_get_setting ==
    /\ pool = "ready"
    /\ \E key \in SettingKeys :
          ret' = [op |-> "get_setting", arg |-> key, ok |-> TRUE,
                  val |-> get_setting(db, key)]
    /\ UNCHANGED <<db, now, nextId, nextOpId, pool, mig, calls>>

NextSettings == Tick \/ Call_save_setting \/ Call_get_setting

SpecSettings == InitSettings /\ [][NextSettings]_vars

---------------------------------------------------------------------------
(* Claims on the settings (SpecSettings) *)

\* The value of the most recent save of the key in the log, none when the
\* key was never saved.
LastSaved(log, key) ==
    LET at == {i \in 1..Len(log) : log[i].key = key}
    IN IF at = {} THEN {}
       ELSE {log[CHOOSE i \in at : \A j \in at : j <= i].value}

\* C23: after any sequence of save_setting calls there is at most one stored
\* setting per key, get_setting(key) returns the value of the most recent
\* save_setting for that key (absent when the key was never saved), and
\* save_setting on one key leaves the settings of the other keys unchanged.
C23_Step ==
    /\ \A key \in SettingKeys :
          /\ Cardinality({r \in db'.settings : r.key = key}) <= 1
          /\ {r.value : r \in {x \in db'.settings : x.key = key}}
                = LastSaved(calls', key)
    /\ ret'.op = "get_setting" => ret'.val = LastSaved(calls', ret'.arg)
    /\ ret'.op = "save_setting" =>
          /\ ret'.ok
          /\ {r \in db'.settings : r.key # ret'.arg}
                = {r \in db.settings : r.key # ret'.arg}

C23_SettingsAreLastWriteWins == [][C23_Step]_vars

\* A key saved twice, with different values at different times, was read
\* back while the other key held its setting.
C23_Witness ==
    /\ ret.op = "get_setting" /\ ret.arg = "tts_config" /\ ret.val = {"b"}
    /\ Len(calls) = 3
    /\ calls[1] = [key |-> "tts_config", value |-> "a"]
    /\ calls[2].key = "ai_config"
    /\ calls[3] = [key |-> "tts_config", value |-> "b"]
    /\ \E r \in db.settings : r.key = "tts_config" /\ r.updated_at = 1
    /\ \E r \in db.settings : r.key = "ai_config" /\ r.updated_at = 0

---------------------------------------------------------------------------
(* Frame of the two upserts (Spec) *)

\* C24: on a date with an entry, upsert_entry_mood changes only mood,
\* mood_emoji and updated_at of that entry and upsert_entry changes only
\* content_json and updated_at; on a date without an entry,
\* upsert_entry_mood inserts an entry with content "{}" and upsert_entry one
\* with absent mood fields, each with created_at = updated_at.  No other
\* entry and no AI operation changes.  (Stated of the calls that return Ok,
\* one call at a time.)
C24_Step ==
    \A d \in Dates :
       ((IsCall("upsert_entry") \/ IsCall("upsert_entry_mood"))
           /\ ret'.arg = d /\ ret'.ok) =>
          /\ ret'.val = RowsOn(db', d)
          /\ db'.entries \ RowsOn(db', d) = db.entries \ RowsOn(db, d)
          /\ db'.ai = db.ai
          /\ Cardinality(RowsOn(db', d)) = 1
          /\ \A f \in RowsOn(db', d) :
                /\ \A e \in RowsOn(db, d) :
                      /\ f.id = e.id
                      /\ f.entry_date = e.entry_date
                      /\ f.created_at = e.created_at
                      /\ IsCall("upsert_entry") =>
                            f.mood = e.mood /\ f.mood_emoji = e.mood_emoji
                      /\ IsCall("upsert_entry_mood") =>
                            f.content_json = e.content_json
                /\ RowsOn(db, d) = {} =>
                      /\ f.created_at = f.updated_at
                      /\ f.updated_at = now
                      /\ IsCall("upsert_entry") =>
                            f.mood = NULL /\ f.mood_emoji = NULL
                      /\ IsCall("upsert_entry_mood") =>
                            f.content_json = EmptyDoc

C24_UpsertsChangeOnlyTheirFields == [][C24_Step]_vars

\* upsert_entry_mood set the mood of an older entry that has content, on a
\* store where it had created the entry of the other date.
C24_Witness ==
    /\ ret.op = "upsert_entry_mood" /\ ret.ok
    /\ \E f \in ret.val :
          /\ f \in db.entries
          /\ f.content_json \in Contents
          /\ f.mood = "happy"
          /\ f.updated_at > f.created_at
    /\ \E g \in db.entries :
          /\ g.content_json = EmptyDoc
          /\ g.mood = "happy"
          /\ g.created_at = g.updated_at

---------------------------------------------------------------------------
(* Order of the search results (SpecEdge) *)

\* The index row of a stored entry.
RowOf(e) == CHOOSE r \in DOMAIN db.fts : r.entry_id = e.id

\* C25: search_entries returns the matching entries ordered from most
\* relevant to least relevant by BM25 score, entries of equal score in
\* descending entry_date order.
C25_MostRelevantFirst ==
    (ret.op = "search_entries" /\ trim(ret.arg) # <<>>) =>
        \A i, j \in 1..Len(ret.val) : i < j =>
            LET q == trim(ret.arg)[1]
                si == Bm25Score(RowOf(ret.val[i]), db.fts, q)
                sj == Bm25Score(RowOf(ret.val[j]), db.fts, q)
            IN /\ ~ FracLess(si, sj)
               /\ ~ FracLess(sj, si) =>
                     ~ StrLess(ret.val[i].entry_date, ret.val[j].entry_date)

---------------------------------------------------------------------------
(* Two overlapping runs of migrations::run on one store (SpecOverlap).
   Each run is a transaction on a connection of its own; calls[p] is the
   run of task p and mig holds the store's write lock.  *)

RunIdle ==
    [state |-> "idle", pc |-> 0, current_version |-> 0, base |-> EmptyStore,
     tx |-> EmptyStore, reads |-> FALSE, wrote |-> FALSE, trace |-> <<>>,
     overlapped |-> FALSE]

InitOverlap ==
    /\ db \in InitStores
    /\ now = 0
    /\ nextId = 1 + Cardinality(db.entries)
    /\ nextOpId = 1
    /\ pool = "none"
    /\ ret = NoCall
    /\ mig = [writer |-> "none", before |-> db]
    /\ calls = [p \in Tasks |-> RunIdle]

\* What the transaction of p sees: its snapshot with its own writes, or the
\* committed store while it has read nothing yet.
View(p) == IF calls[p].reads THEN calls[p].tx ELSE db

\* The statement takes the write lock: it changes the store, or is an INSERT.
Writes(s, d) ==
    \/ s.stmt \in {"record_version", "populate_entries_fts"}
    \/ Exec(s, d, now).db # d

\* (no lock: every transaction writes when it wants)
CanWrite_NoLock(p) == TRUE

\* SQLite lets one transaction write at a time, and lets a transaction that
\* has read start writing only while nothing was committed since its
\* snapshot.
CanWrite(p) ==
    /\ mig.writer \in {"none", p}
    /\ (calls[p].reads /\ mig.writer # p) => calls[p].base = db

\* pool.begin()
Run_begin(p) ==
    /\ calls[p].state = "idle"
    /\ calls' = [calls EXCEPT ![p] =
                    [RunIdle EXCEPT !.state = "running", !.pc = 1,
                        !.overlapped = \E q \in Tasks \ {p} : calls[q].state = "running"]]
    /\ UNCHANGED <<db, now, nextId, nextOpId, pool, ret, mig>>

\* The next statement of the run of p succeeds; the last one is commit().
Run_step(p) ==
    /\ calls[p].state = "running"
    /\ LET c == calls[p]
           s == Program[c.pc]
           r == Exec(s, View(p), now)
           current_version == IF s.stmt = "select_max_version"
                              THEN CurrentVersion(r.db) ELSE c.current_version
       IN /\ r.ok
          /\ IF s.stmt = "commit"
             THEN /\ db' = IF c.wrote THEN r.db ELSE db
                  /\ mig' = [mig EXCEPT !.writer = IF @ = p THEN "none" ELSE @]
                  /\ calls' = [calls EXCEPT ![p].state = "ok", ![p].pc = 0]
             ELSE /\ Writes(s, View(p)) => CanWrite(p)
                  /\ mig' = [mig EXCEPT !.writer =
                                IF Writes(s, View(p)) THEN p ELSE @]
                  /\ calls' = [calls EXCEPT
                        ![p].pc = NextPc(c.pc + 1, current_version),
                        ![p].current_version = current_version,
                        ![p].base = IF c.reads THEN @ ELSE db,
                        ![p].tx = r.db,
                        ![p].reads = TRUE,
                        ![p].wrote = @ \/ Writes(s, View(p)),
                        ![p].trace = IF s.step > 0 THEN Append(@, s) ELSE @]
                  /\ db' = db
    /\ UNCHANGED <<now, nextId, nextOpId, pool, ret>>

\* A statement of the run of p fails (its own conditions, a fault of the
\* storage engine, or SQLITE_BUSY while the other transaction is open): `?`
\* returns the error and the dropped transaction rolls back.
Run_fail(p) ==
    /\ calls[p].state = "running"
    /\ db' = Rollback(db, View(p))
    /\ mig' = [mig EXCEPT !.writer = IF @ = p THEN "none" ELSE @]
    /\ calls' = [calls EXCEPT ![p].state = "err", ![p].pc = 0]
    /\ UNCHANGED <<now, nextId, nextOpId, pool, ret>>

NextOverlap ==
    \/ MigTick
    \/ \E p \in Tasks : Run_begin(p) \/ Run_step(p) \/ Run_fail(p)

SpecOverlap == InitOverlap /\ [][NextOverlap]_vars

---------------------------------------------------------------------------
(* Claims on overlapping migration runs (SpecOverlap) *)

\* The steps whose statements the run of p executed.
StepsOf(p) == {calls[p].trace[i].step : i \in 1..Len(calls[p].trace)}

\* C26: with two migration runs overlapping on the same store, in any
\* interleaving, no step's statements take effect twice and no version is
\* recorded twice; the committed store is at every moment (so also once both
\* runs finished) either as it was or fully migrated, never partially
\* migrated, its entries are kept and the search index holds each entry's
\* row once.
C26_OverlappingRunsMigrateOnce ==
    /\ \A v \in 1..LatestVersion :
          /\ Cardinality({p \in Tasks : calls[p].state = "ok" /\ v \in StepsOf(p)}) <= 1
          /\ Cardinality({r \in db.versions : r.version = v}) <= 1
    /\ \/ db = mig.before
       \/ /\ Migrated(db)
          /\ db.entries = mig.before.entries
          /\ \A e \in db.entries : CopiesIn(FtsRow(e), db.fts) = 1
    /\ \A r \in DOMAIN db.fts :
          /\ db.fts[r] = 1
          /\ \E e \in db.entries : r = FtsRow(e)

\* Both runs returned Ok on a fresh store, the second having begun while the
\* first was running; the first did every step and the second none.
C26_Witness ==
    /\ mig.before = EmptyStore
    /\ calls["t1"].state = "ok" /\ calls["t2"].state = "ok"
    /\ calls["t2"].overlapped
    /\ StepsOf("t1") = 1..LatestVersion
    /\ StepsOf("t2") = {}
    /\ Migrated(db)

---------------------------------------------------------------------------
(* migrations::run on a store that holds a part of its next step
   (SpecRetry).  mig is the prior attempt: the step, how many of its
   statements took effect, and the store before it.  *)

\* The statements of step v; the last one records the version.
StepStatements(v) == SelectSeq(Program, LAMBDA s : s.step = v)

InitRetry ==
    /\ db \in {d \in InitStores : CurrentVersion(d) < LatestVersion}
    /\ now = 0
    /\ nextId = 1 + Cardinality(db.entries)
    /\ nextOpId = 1
    /\ pool = "none"
    /\ ret = NoCall
    /\ mig = [step |-> CurrentVersion(db) + 1, applied |-> 0, clean |-> db,
              retried |-> FALSE, t |-> 0]
    /\ calls = <<>>

\* The next statement of the step took effect outside a transaction that
\* was rolled back; the version is not recorded.
Prior_stmt ==
    /\ ~ mig.retried
    /\ mig.applied + 1 < Len(StepStatements(mig.step))
    /\ LET r == Exec(StepStatements(mig.step)[mig.applied + 1], db, now)
       IN /\ r.ok
          /\ db' = r.db
    /\ mig' = [mig EXCEPT !.applied = @ + 1]
    /\ UNCHANGED <<now, nextId, nextOpId, pool, ret, calls>>

\* migrations::run on the store as the prior attempt left it.
Retry_run ==
    /\ ~ mig.retried
    /\ LET r == migrations_run(db, now, 0)
       IN /\ db' = r.db
          /\ ret' = [op |-> "run", arg |-> "", ok |-> r.ok, val |-> {}]
    /\ mig' = [mig EXCEPT !.retried = TRUE, !.t = now]
    /\ UNCHANGED <<now, nextId, nextOpId, pool, calls>>

NextRetry == MigTick \/ Prior_stmt \/ Retry_run

SpecRetry == InitRetry /\ [][NextRetry]_vars

\* C27: for each step 1..5, executing the step on a store where a prior
\* attempt of that step applied only some of its statements and did not
\* record its version succeeds, and yields the same schema and data as on the
\* store where the prior attempt applied nothing.
C27_RetryOfPartialStepSucceeds ==
    (mig.retried /\ mig.applied >= 1) =>
        /\ ret.ok
        /\ db = migrations_run(mig.clean, mig.t, 0).db

---------------------------------------------------------------------------
(* The audit log under overlapping calls (SpecAudit): ai_polish,
   delete_entry, delete_ai_operations_for_entry and import_data of two
   tasks, one statement at a time.  *)

\* ai_polish up to its first await on the provider: the entry is looked up.
Begin_ai_polish(p) ==
    /\ Free(p)
    /\ \E date \in ConcDates :
          LET c == [Idle EXCEPT !.op = "ai_polish", !.date = date]
          IN calls' = [calls EXCEPT ![p] =
                IF get_entry(db, date) = {} THEN Done(c, FALSE, "EntryNotFound")
                ELSE [c EXCEPT !.pc = "create_op",
                               !.id = (CHOOSE e \in get_entry(db, date) : TRUE).id]]
    /\ UNCHANGED <<db, now, nextId, nextOpId, pool, ret, mig>>

\* The rest of ai_polish: the key chain and the provider answer, then
\* create_ai_operation inserts the record for the id looked up before.
Stmt_create_ai_operation(p) ==
    /\ calls[p].pc = "create_op"
    /\ nextOpId <= MaxOps
    /\ \E ext \in {"ok", "provider_error"} :
          LET c == calls[p]
              r == IF ext = "ok" THEN create_ai_operation(db, c.id, now, nextOpId)
                   ELSE Err("AI", db)
          IN /\ db' = r.db
             /\ nextOpId' = IF r.ok THEN nextOpId + 1 ELSE nextOpId
             /\ calls' = [calls EXCEPT ![p] = Done(c, r.ok, r.err)]
    /\ UNCHANGED <<now, nextId, pool, ret, mig>>

Conc_delete_ai_operations_for_entry(p) ==
    /\ Free(p)
    /\ \E entry_id \in BundleIds :
          LET r == delete_ai_operations_for_entry(db, entry_id)
          IN /\ db' = r.db
             /\ calls' = [calls EXCEPT ![p] =
                   Done([Idle EXCEPT !.op = "delete_ai_operations_for_entry",
                                     !.count = r.val], TRUE, "delete_ops")]
    /\ UNCHANGED <<now, nextId, nextOpId, pool, ret, mig>>

NextAudit ==
    \/ ConcTick
    \/ \E p \in Tasks :
          \/ Begin_ai_polish(p)
          \/ Stmt_create_ai_operation(p)
          \/ Call_delete_entry(p)
          \/ Conc_delete_ai_operations_for_entry(p)
          \/ Begin_import_data(p)
          \/ Stmt_import_select(p)
          \/ Stmt_import_insert(p)
          \/ Stmt_import_update(p)
          \/ Stmt_import_select_op(p)
          \/ Stmt_import_insert_op(p)

SpecAudit == InitConc /\ [][NextAudit]_vars

\* C28: in every reachable state, under any interleaving of ai_polish /
\* create_ai_operation, delete_entry, delete_ai_operations_for_entry and
\* import_data, every stored AI operation's entry_id is the id of a stored
\* entry.
C28_OperationsBelongToEntries ==
    \A o \in db.ai : \E e \in db.entries : e.id = o.entry_id

\* ai_polish found the entry, another task deleted it before the record was
\* inserted, and the insert was refused; an import then brought the entry
\* back with an operation.
C28_Witness ==
    /\ \E p \in Tasks :
          /\ calls[p].op = "ai_polish" /\ calls[p].pc = "done"
          /\ ~ calls[p].ok /\ calls[p].path = "Database"
    /\ db.ai # {}

---------------------------------------------------------------------------
(* Bounds of the statistics (SpecRead) *)

\* C29: get_writing_stats, with no call overlapping it, returns
\* total_entries = the number of stored entries and
\* 0 <= current_streak <= longest_streak <= total_entries, with
\* longest_streak >= 1 whenever some stored date parses.
C29_StatsAreBounded ==
    ret.op = "get_writing_stats" =>
        /\ ret.val.total_entries = Cardinality(db.entries)
        /\ 0 <= ret.val.current_streak
        /\ ret.val.current_streak <= ret.val.longest_streak
        /\ ret.val.longest_streak <= ret.val.total_entries
        /\ (\E e \in db.entries : parse_from_str(Chars[e.entry_date]) # {})
              => ret.val.longest_streak >= 1

---------------------------------------------------------------------------
(* Export, then import into a fresh store (SpecRound) *)

\* export_all_data of the store, then import_data of the bundle, with its
\* AI operations, into a store that was just created and migrated; ret
\* holds the bundle, what import_data returned and the store it left.
Call_round_trip ==
    /\ pool = "ready"
    /\ \E data \in export_all_data(db, now), overwrite \in BOOLEAN :
          LET r == import_data(BuiltBy(EmptyStore, 1, LatestVersion), data,
                               [overwrite |-> overwrite, include_ai_operations |-> TRUE])
          IN ret' = [op |-> "round_trip", arg |-> data, ok |-> r.ok, val |-> r.val,
                     store |-> r.db]
    /\ UNCHANGED <<db, now, nextId, nextOpId, pool, mig, calls>>

NextRound ==
    \/ Tick
    \/ Cmd_upsert_entry
    \/ Cmd_upsert_entry_mood
    \/ Cmd_delete_entry
    \/ Cmd_ai_polish
    \/ Call_round_trip

SpecRound == InitSettings /\ [][NextRound]_vars

\* The entries and ai_operations lists of the bundles export_all_data can
\* return.
Lists(bundles) ==
    {[entries |-> b.entries, ai_operations |-> b.ai_operations] : b \in bundles}

\* C30: importing the bundle export_all_data returned for a store S, with
\* include_ai_operations, into a freshly migrated empty store returns the
\* number of entries of S and leaves a store whose entries and AI operations
\* are those of S field for field and whose search index has one row per
\* entry; exporting that store gives the same entries and ai_operations
\* lists.
C30_ExportImportRoundTrip ==
    ret.op = "round_trip" =>
        /\ ret.ok
        /\ ret.val = Cardinality(db.entries)
        /\ ret.store.entries = db.entries
        /\ ret.store.ai = db.ai
        /\ \A e \in ret.store.entries : CopiesIn(FtsRow(e), ret.store.fts) = 1
        /\ \A r \in DOMAIN ret.store.fts :
              ret.store.fts[r] = 1 /\ \E e \in ret.store.entries : r = FtsRow(e)
        /\ Lists({ret.arg}) \subseteq Lists(export_all_data(ret.store, now))
        /\ Lists(export_all_data(ret.store, now)) = Lists(export_all_data(db, now))

\* The round trip of a store with two entries, one with a mood and changed
\* after it was created, and an AI operation.
C30_Witness ==
    /\ ret.op = "round_trip" /\ ret.ok /\ ret.val = 2
    /\ Cardinality(ret.store.ai) = 1
    /\ \E e \in ret.store.entries : e.mood = "happy" /\ e.updated_at > e.created_at
    /\ \E e \in ret.store.entries : e.mood = NULL

====
